---- MODULE Spec2Model ----
(***************************************************************************)
(* A model of the audiotab dataflow runtime.                               *)
(*                                                                         *)
(*  - AsyncPipeline (src/src/engine/async_pipeline.rs): the pipeline's      *)
(*    lifecycle state, start / trigger / stop / transition_to, one bounded  *)
(*    inbox per node, and per node a processing task (ResilientNode::run)   *)
(*    and a fan-out task connected by a second bounded channel.             *)
(*  - PipelineState::can_transition_to (src/src/engine/state.rs).           *)
(*  - ResilientNode::run (src/src/resilience/resilient_node.rs) with its    *)
(*    error policy and NodeMetrics (src/src/observability/metrics.rs).      *)
(*                                                                         *)
(*  - PipelineScheduler (src/src/engine/scheduler.rs, priority.rs).         *)
(*  - AudioKernelRuntime (src/src/engine/kernel.rs) and its reader tasks.   *)
(*  - ManagedSource around a mock source (src/src/hal/lifecycle.rs,         *)
(*    src/src/hal/mock) and AudioDevice (hal/drivers/audio_device.rs).      *)
(*                                                                         *)
(* Specifications:                                                          *)
(*    Spec          the pipeline, every node wrapped with Propagate;        *)
(*    SpecFlow      start / trigger / stop on three-node graphs; FairFlow   *)
(*                  the same with nodes that never fail, tasks polled;      *)
(*    SpecResilient one ResilientNode::run driven directly through its rx   *)
(*                  and tx channels, under each of the three policies;      *)
(*    SpecSched     the scheduler; FairSched with tasks that do not panic;  *)
(*    SpecKernel    the kernel runtime; SpecDevice the devices.             *)
(*    SpecHardware  the registered-hardware list (hardware_manager/         *)
(*                  config.rs); SpecSources the sequence ids of the audio   *)
(*                  source nodes; SpecSurface the pipeline behind the       *)
(*                  commands of src-tauri; SpecJson from_json on JSON       *)
(*                  documents; SpecMapper ChannelMapper::apply;             *)
(*    SpecConverter packet_to_frame and frame_to_packet; FairPool the       *)
(*                  PipelinePool, spawned tasks polled; SpecBuffers the     *)
(*                  buffer exchange of an AudioDevice with its reader.      *)
(*    SpecLocks     the mutexes of the commands and of the DeviceManager;   *)
(*                  SpecDeploy deploy_graph with its device cleanup;        *)
(*                  SpecCommands the deployed pipeline under the commands   *)
(*                  alone; FairCycle and SpecEndpoints the pipeline on a    *)
(*                  cyclic graph and on an undeclared connection endpoint.  *)
(* tokio's mpsc channel is modelled by its contract: bounded FIFO, send     *)
(* suspends while the queue is full and fails once the receiver is gone,    *)
(* recv yields None once the queue is empty and every sender is gone.       *)
(***************************************************************************)
EXTENDS Integers, Sequences, FiniteSets, TLC

\* ------------------------------------------------------------------ bounds
\* Frames the caller gets accepted: by the pipeline under its whole interface
\* (Spec) and by a directly driven ResilientNode (SpecResilient) ...
MaxFrames == 3

\* ... and by the pipeline on the three-node graphs (SpecFlow).
FlowFrames == 2
\* The number of tasks handed to a scheduler.
MaxTasks == 3
\* The number of times a kernel is started.
MaxStarts == 2
\* The number of cpal streams an AudioDevice builds.
MaxStreams == 2
\* The number of entries a hardware configuration holds.
MaxRegistered == 2
\* The number of calls of process made on a source node.
MaxCalls == 3
\* Frames the caller gets accepted by the pipeline behind the command surface.
SurfaceFrames == 2
\* The number of nodes in a configuration handed to from_json.
MaxJsonNodes == 2
\* The number of rules in a channel mapping.
MaxRules == 2
\* The number of samples in a packet handed to the format converter.
MaxSamples == 4
\* The number of calls of execute on a pipeline pool.
MaxExecutes == 3
\* The number of buffers the data callbacks of an AudioDevice fill.
MaxPackets == 3
\* The number of AudioSourceNodes of a deployed graph that ask for a device.
MaxRequests == 3

\* ------------------------------------------------------------- vocabulary
NodeIds == {"A", "B", "C", "D"}
None == "none"

\* DataFrame: sequence_id, the number of process calls that have transformed
\* the payload, and (model bookkeeping) the index in `connections` of the edge
\* that delivered it to the inbox it sits in, 0 for a frame sent from outside.
NoFrame == [seq |-> -1, hops |-> -1, via |-> -1]

\* The frame handed to ErrorPolicy::UseDefault.
DefaultFrame == [seq |-> 99, hops |-> 0, via |-> 0]

Policies == {"Propagate", "SkipFrame", "UseDefault"}

\* PipelineState: the variant and, for Error, its `recoverable` flag.
St(name) == [name |-> name, recoverable |-> FALSE]
ErrorState(rec) == [name |-> "Error", recoverable |-> rec]
PipelineStates ==
    {St("Idle"), St("Initializing"), St("Running"), St("Paused"), St("Completed"),
     ErrorState(TRUE), ErrorState(FALSE)}
NoState == St("-")

\* Graph configurations accepted by from_json: nodes, connections (in
\* declaration order) and pipeline_config.channel_capacity.
Configs ==
    { [nodes |-> {"A"}, connections |-> << >>, cap |-> 2],
      [nodes |-> {"A", "B"}, connections |-> << <<"A", "B">> >>, cap |-> 1] }

\* Three-node graphs: a chain, a fan-out, and a fan-out whose branches meet
\* again (two paths from A to C).
FlowConfigs ==
    { [nodes |-> {"A", "B", "C"}, connections |-> << <<"A", "B">>, <<"B", "C">> >>, cap |-> 2],
      [nodes |-> {"A", "B", "C"}, connections |-> << <<"A", "B">>, <<"A", "C">> >>, cap |-> 1],
      [nodes |-> {"A", "B", "C"},
       connections |-> << <<"A", "B">>, <<"A", "C">>, <<"B", "C">> >>, cap |-> 1] }

VARIABLES
    nodes,            \* AsyncPipeline.nodes: ids of the nodes still owned by the pipeline
    connections,      \* AsyncPipeline.connections
    channel_capacity, \* AsyncPipeline.channel_capacity
    source_node_id,   \* AsyncPipeline.source_node_id (None when absent)
    channels,         \* AsyncPipeline.channels: ids whose inbox sender the pipeline holds
    handles,          \* AsyncPipeline.handles: ids whose task handle the pipeline holds
    state,            \* AsyncPipeline.state
    configured,       \* the node ids of the configuration (fixed at construction)
    budget,           \* the number of frames the caller will get accepted (fixed)
    inbox,            \* per node: the queue of its inbox channel
    nodepc,           \* per node: position of ResilientNode::run
    held,             \* per node: the frame run holds (input while processing, output while sending)
    policy,           \* per node: ResilientNode.error_policy
    fan,              \* per node: queue of the channel run sends its output to
    fanpc,            \* per node: position of the fan-out task (or of the outside receiver)
    fanheld,          \* per node: the frame the fan-out task is forwarding
    fanidx,           \* per node: index in outputs of the next send of the fan-out loop
    outputs,          \* per node: the connection indexes of its output senders, in order
    frames_processed, \* NodeMetrics.frames_processed
    errors_count,     \* NodeMetrics.errors_count
    latency_samples,  \* NodeMetrics.latency_samples
    call,             \* the pipeline operation the caller is inside of
    ret,              \* the operation that returned in the step just taken, and its result
    accepted,         \* history: frames a trigger enqueued into the source inbox
    spawned,          \* history: per node, processing tasks spawned so far
    hist,             \* history: per node, the inputs process was called on and the outcome
    emitted,          \* history: per node, the frames run sent to its output channel
    sunk              \* history: frames the outside receiver took from the output channel

pipeVars == <<nodes, connections, channel_capacity, source_node_id, channels, handles,
              state, configured, budget>>
nodeVars == <<inbox, nodepc, held, policy, fan, frames_processed, errors_count,
              latency_samples, hist, emitted>>
fanVars == <<fanpc, fanheld, fanidx, outputs>>
callVars == <<call, accepted, spawned, sunk>>
vars == <<pipeVars, nodeVars, fanVars, callVars, ret>>

\* The scheduler (src/src/engine/scheduler.rs): a PipelineScheduler and the
\* tasks handed to it.
VARIABLES
    max_concurrent,   \* PipelineScheduler.max_concurrent
    active_tasks,     \* PipelineScheduler.active_tasks: the handles, as task ids, in order
    pending_queue,    \* PipelineScheduler.pending_queue: the PrioritizedTasks in the heap
    next_task_id,     \* PipelineScheduler.next_task_id
    completed,        \* PipelineScheduler.completed: the results collected, in order
    task,             \* per task id: the state of the spawned future
    spc,              \* the scheduler's owner: idle, or its position inside wait_all
    widx,             \* wait_all: index in active_tasks of the handle being awaited
    scheduled,        \* history: per schedule_task call, what it returned and how many
                      \* admitted tasks were unfinished when it was called
    left              \* history: the PrioritizedTasks popped from pending_queue, in order

schedVars == <<max_concurrent, active_tasks, pending_queue, next_task_id, completed,
               task, spc, widx, scheduled, left>>

\* The kernel runtime (src/src/engine/kernel.rs): an AudioKernelRuntime, its
\* device reader tasks and the caller of start and shutdown.
VARIABLES
    registered_devices, \* hardware_config.registered_devices: [id, enabled], in order
    status,           \* AudioKernelRuntime.status
    active_devices,   \* AudioKernelRuntime.active_devices: registration id -> device instance
    device_channels,  \* AudioKernelRuntime.device_channels: the registration ids it has
    pipeline,         \* AudioKernelRuntime.pipeline: NoState for None, or the pipeline's state
    shutdown_tx,      \* AudioKernelRuntime.shutdown_tx: 0 for None, or the broadcast channel
    reader_handles,   \* AudioKernelRuntime.reader_handles: reader tasks, in push order
    readers,          \* per reader task spawned: its channel, whether signalled, its state
    streaming,        \* the device instances whose stream is running
    kpc,              \* the kernel's caller: idle, or its position in start / shutdown
    kidx,             \* start: index in registered_devices of the next entry
    num_channels,     \* the number of shutdown channels created so far
    kret,             \* the kernel operation that returned in the step just taken
    attempt           \* history: the status the running or last start found, and what
                      \* it did with each entry of registered_devices

kernelVars == <<registered_devices, status, active_devices, device_channels, pipeline,
                shutdown_tx, reader_handles, readers, streaming, kpc, kidx, num_channels,
                kret, attempt>>

\* The devices of the hardware abstraction: a ManagedSource (src/src/hal/
\* lifecycle.rs) around a mock source (src/src/hal/mock), and an AudioDevice
\* (src/src/hal/drivers/audio_device.rs).
VARIABLES
    mstate,           \* ManagedSource.state
    istate,           \* the inner source's state (SimulatedAudioSource.state)
    frame_counter,    \* the inner source's frame_counter
    mpc,              \* the ManagedSource's caller: idle, or inside run_streaming
    is_streaming,     \* AudioDevice.is_streaming
    stream,           \* AudioDevice.stream: 0 for None, or the cpal stream it holds
    streams_built,    \* the number of cpal streams built so far
    dret              \* the device operation that returned in the step just taken

devVars == <<mstate, istate, frame_counter, mpc, is_streaming, stream, streams_built, dret>>

\* The hardware configuration of the application (src/src-tauri/src/
\* hardware_manager/config.rs).
VARIABLES
    hw_state,         \* HardwareConfigManager.state.registered_devices
    hw_file,          \* the registered devices in the file at config_path
    hret              \* the configuration operation that returned in the step just taken

hwVars == <<hw_state, hw_file, hret>>

\* The source nodes (src/src/nodes/audio_source.rs, audio_input.rs), each
\* called directly through process.
VARIABLES
    sequence,         \* the field sequence of each node
    sequence_ids,     \* the sequence_id of the frames each node returned, in order
    calls             \* the number of calls of process made on each node

srcVars == <<sequence, sequence_ids, calls>>

\* The configuration handed to from_json (src/src/engine/async_pipeline.rs).
VARIABLES
    json              \* the serde_json::Value given to from_json

jsonVars == <<json>>

\* ChannelMapper::apply (src/src/hal/channel_mapper.rs) and its arguments.
VARIABLES
    mapping,          \* the ChannelMapping given to apply
    physical,         \* the physical samples given to apply
    applied           \* what apply did: returned Ok or an error, or panicked

mapVars == <<mapping, physical, applied>>

\* The format converter (src/src/hal/format_converter.rs) and its arguments.
VARIABLES
    packet,           \* the PacketBuffer given to packet_to_frame
    converted,        \* what packet_to_frame did: the DataFrame, an error or a panic
    reconstructed     \* what frame_to_packet did with that frame

convVars == <<packet, converted, reconstructed>>

\* The pipeline pool (src/src/engine/pipeline_pool.rs).
VARIABLES
    pool_config,          \* PipelinePool.config
    pool_max_concurrent,  \* PipelinePool.max_concurrent
    semaphore,            \* the permits available in PipelinePool.semaphore
    instance              \* the tasks execute spawned: position, and the pipeline each built

poolVars == <<pool_config, pool_max_concurrent, semaphore, instance>>

\* The buffer exchange between an AudioDevice (src/src/hal/drivers/
\* audio_device.rs) and the reader task of the kernel (src/src/engine/kernel.rs).
VARIABLES
    audio,            \* AudioDevice.format and AudioDevice.num_channels
    empty,            \* the queue of the channel (empty_tx, empty_rx)
    filled,           \* the queue of the channel (filled_tx, filled_rx)
    callback,         \* per cpal stream: the buffer its data callback holds
    reader,           \* the reader task: position, packet held, sequence_id
    shutdown_signal,  \* whether the shutdown broadcast has been sent
    captured,         \* history: the number of buffers the callbacks filled
    lost              \* history: ids of the buffers a full queue refused

bufVars == <<audio, empty, filled, callback, reader, shutdown_signal, captured, lost>>

\* The mutexes of the command surface and of the DeviceManager
\* (src/src-tauri/src/state.rs, src/src/hal/device_manager.rs).
VARIABLES
    pipeline_mutex,   \* PipelineHandle.pipeline: "free", or the command holding the guard
    active_mutex,     \* DeviceManager.active_devices (the Mutex): "free", or the holder
    manager_devices,  \* DeviceManager.active_devices (the map): the profile ids in it
    dm                \* the DeviceManager's caller: idle, or inside start_device / stop_device

lockVars == <<pipeline_mutex, active_mutex, manager_devices, dm>>

\* deploy_graph (src/src-tauri/src/commands/pipeline.rs 36-228).
VARIABLES
    requests,         \* the device profiles the AudioSourceNodes ask for, in iteration order
    started_devices,  \* started_devices: the profiles started, in order
    dpc,              \* the position of deploy_graph
    didx,             \* the index in requests of the next node
    cleanup_handles,  \* the cleanup tasks that have not run yet, by profile
    stopped_devices,  \* history: the profiles stop_device was called for, in order
    pipelines,        \* AppState.pipelines: the number of handles stored
    events,           \* history: the states of the pipeline-status events emitted
    deploy_ret        \* what deploy_graph returned: "-" before it returns

deployVars == <<requests, started_devices, dpc, didx, cleanup_handles, stopped_devices, pipelines,
                events, deploy_ret>>

\* The command surface (src/src-tauri/src/commands/pipeline.rs, state.rs).
VARIABLES
    handle_state      \* PipelineHandle.state of the deployed pipeline

cmdVars == <<handle_state>>

\* The parts of the application outside the engine's pipeline, scheduler,
\* kernel and devices.
restVars == <<hwVars, srcVars, cmdVars, jsonVars, mapVars, convVars, poolVars, bufVars, lockVars, deployVars>>

\* What the pipeline's operations and tasks never touch.
otherVars == <<schedVars, kernelVars, devVars, restVars>>

\* What the scheduler never touches.
notSched == <<vars, kernelVars, devVars, restVars>>

\* What the kernel never touches.
notKernel == <<vars, schedVars, devVars, restVars>>

\* What the devices never touch.
notDev == <<vars, schedVars, kernelVars, restVars>>

\* What the hardware configuration never touches.
notHw == <<vars, schedVars, kernelVars, devVars, srcVars, cmdVars, jsonVars, mapVars, convVars, poolVars, bufVars, lockVars, deployVars>>

\* What the source nodes never touch.
notSrc == <<vars, schedVars, kernelVars, devVars, hwVars, cmdVars, jsonVars, mapVars, convVars, poolVars, bufVars, lockVars, deployVars>>

\* What from_json leaves alone outside the pipeline.
notJson == <<schedVars, kernelVars, devVars, hwVars, srcVars, cmdVars, jsonVars, mapVars, convVars, poolVars, bufVars, lockVars, deployVars>>

\* What the channel mapper never touches.
notMap == <<vars, schedVars, kernelVars, devVars, hwVars, srcVars, cmdVars, jsonVars, convVars, poolVars, bufVars, lockVars, deployVars>>

\* What the format converter never touches.
notConv == <<vars, schedVars, kernelVars, devVars, hwVars, srcVars, cmdVars, jsonVars, mapVars, poolVars, bufVars, lockVars, deployVars>>

\* What the pipeline pool never touches.
notPool == <<vars, schedVars, kernelVars, devVars, hwVars, srcVars, cmdVars, jsonVars, mapVars, convVars, bufVars, lockVars, deployVars>>

\* What the buffer exchange never touches.
notBuf == <<vars, schedVars, kernelVars, devVars, hwVars, srcVars, cmdVars, jsonVars, mapVars, convVars, poolVars, lockVars, deployVars>>

\* What the commands under their mutexes leave alone.
notLock == <<schedVars, kernelVars, hwVars, srcVars, jsonVars, mapVars, convVars, poolVars, bufVars, deployVars>>

\* What deploy_graph leaves alone (it starts and stops devices through the
\* DeviceManager).
notDeploy == <<vars, schedVars, kernelVars, devVars, hwVars, srcVars, cmdVars, jsonVars, mapVars, convVars, poolVars, bufVars>>

\* What the commands leave alone outside the pipeline.
notCmd == <<schedVars, kernelVars, devVars, hwVars, srcVars, jsonVars, mapVars, convVars, poolVars, bufVars, lockVars, deployVars>>

\* The kernel's and the devices' operations that returned, and none.
KReturned(op, from, result, why) == [op |-> op, from |-> from, result |-> result, why |-> why]
NoKReturn == KReturned("-", "-", "-", "-")
DReturned(dev, op, result) == [dev |-> dev, op |-> op, result |-> result]
NoDReturn == DReturned("-", "-", "-")

\* No kernel in use.
KernelIdle ==
    /\ registered_devices = << >>
    /\ status = "Stopped"
    /\ active_devices = [id \in {} |-> 0]
    /\ device_channels = {}
    /\ pipeline = NoState
    /\ shutdown_tx = 0
    /\ reader_handles = << >>
    /\ readers = << >>
    /\ streaming = {}
    /\ kpc = "idle"
    /\ kidx = 0
    /\ num_channels = 0
    /\ kret = NoKReturn
    /\ attempt = [from |-> "-", did |-> << >>]

\* No device in use.
DevicesIdle ==
    /\ mstate = "Unopened"
    /\ istate = "Unopened"
    /\ frame_counter = 0
    /\ mpc = "idle"
    /\ is_streaming = FALSE
    /\ stream = 0
    /\ streams_built = 0
    /\ dret = NoDReturn

\* No scheduler in use.
SchedulerIdle ==
    /\ max_concurrent = 0
    /\ active_tasks = << >>
    /\ pending_queue = {}
    /\ next_task_id = 0
    /\ completed = << >>
    /\ task = << >>
    /\ spc = "idle"
    /\ widx = 0
    /\ scheduled = << >>
    /\ left = << >>

\* The operation of the hardware configuration that returned, and none.
HReturned(op, result) == [op |-> op, result |-> result]
NoHReturn == HReturned("-", "-")

\* No hardware configuration in use.
HardwareIdle ==
    /\ hw_state = << >>
    /\ hw_file = << >>
    /\ hret = NoHReturn

\* AudioSourceNode::with_device (audio_source.rs 105-118) and
\* AudioInputNode::new (audio_input.rs 74-87): sequence 0, nothing returned.
SourceNodes == {"AudioSourceNode", "AudioInputNode"}
SourcesNew ==
    /\ sequence = [n \in SourceNodes |-> 0]
    /\ sequence_ids = [n \in SourceNodes |-> << >>]
    /\ calls = [n \in SourceNodes |-> 0]

\* No configuration to parse.
Null == "null"
NoJson == json = [nodes |-> << >>, connections |-> << >>, cap |-> -1]

\* No mapping applied: ChannelMapping::default() (types.rs 58-66).
NotApplied == [result |-> "-", samples |-> << >>]
NoMapping ==
    /\ mapping = [physical_channels |-> 0, virtual_channels |-> 0, routing |-> << >>]
    /\ physical = << >>
    /\ applied = NotApplied

\* Nothing converted: PacketBuffer::new(I16, 0, 1) (types.rs 134-152).
NotConverted == [result |-> "-"]
NoPacket ==
    /\ packet = [format |-> "I16", data |-> << >>, num_channels |-> 1]
    /\ converted = NotConverted
    /\ reconstructed = NotConverted

\* No buffer, and no buffer exchange set up.
NoBuffer == [id |-> 0, kind |-> Null, data |-> 0, num_channels |-> 0]
NoBuffers ==
    /\ audio = [format |-> Null, num_channels |-> 0]
    /\ empty = << >>
    /\ filled = << >>
    /\ callback = << >>
    /\ reader = [pc |-> "none", packet |-> NoBuffer, sequence_id |-> 0]
    /\ shutdown_signal = FALSE
    /\ captured = 0
    /\ lost = {}

\* No mutex taken, no device started through a DeviceManager.
NoLocks ==
    /\ pipeline_mutex = "free"
    /\ active_mutex = "free"
    /\ manager_devices = {}
    /\ dm = "idle"

\* No deployment.
NoDeploy ==
    /\ requests = << >>
    /\ started_devices = << >>
    /\ dpc = "none"
    /\ didx = 0
    /\ cleanup_handles = {}
    /\ stopped_devices = << >>
    /\ pipelines = 0
    /\ events = << >>
    /\ deploy_ret = "-"

\* No pool in use.
NoPool ==
    /\ pool_config = [nodes |-> {}, connections |-> << >>]
    /\ pool_max_concurrent = 0
    /\ semaphore = 0
    /\ instance = << >>

\* No pipeline deployed.
NoHandle == handle_state = NoState

RestIdle == HardwareIdle /\ SourcesNew /\ NoHandle /\ NoJson /\ NoMapping /\ NoPacket /\ NoPool /\ NoBuffers /\ NoLocks /\ NoDeploy

OthersIdle == SchedulerIdle /\ KernelIdle /\ DevicesIdle /\ RestIdle

\* --------------------------------------------------------------- helpers
Idx(s) == 1..Len(s)

\* What the caller observes when an operation returns; NoReturn in every
\* step in which none returns.
Returned(op, target, result) == [op |-> op, target |-> target, result |-> result]
NoReturn == Returned("-", NoState, "-")

\* from_json, lines 71-74: a node with no incoming connection.
SourceCandidates(ns, conns) == {n \in ns : \A i \in Idx(conns) : conns[i][2] # n}

\* ------------------------------------------------- engine/state.rs 31..59
\* Mutant: the `recoverable: true` pattern of line 57 widened to any Error.
can_transition_to_any_error(self, target) ==
    \/ <<self.name, target.name>> \in
          {<<"Idle", "Initializing">>, <<"Initializing", "Running">>,
           <<"Initializing", "Error">>, <<"Running", "Paused">>, <<"Running", "Completed">>,
           <<"Running", "Error">>, <<"Paused", "Running">>, <<"Paused", "Completed">>,
           <<"Paused", "Error">>, <<"Completed", "Idle">>}
    \/ self.name = "Error" /\ target.name = "Idle"

\* Mutant: a Completed pipeline may be started again without a reset.
can_transition_to_restart(self, target) ==
    \/ <<self.name, target.name>> \in
          {<<"Idle", "Initializing">>, <<"Initializing", "Running">>,
           <<"Initializing", "Error">>, <<"Running", "Paused">>, <<"Running", "Completed">>,
           <<"Running", "Error">>, <<"Paused", "Running">>, <<"Paused", "Completed">>,
           <<"Paused", "Error">>, <<"Completed", "Idle">>, <<"Completed", "Initializing">>}
    \/ self.name = "Error" /\ self.recoverable /\ target.name = "Idle"

can_transition_to(self, target) ==
    \/ self.name = "Idle" /\ target.name = "Initializing"
    \/ self.name = "Initializing" /\ target.name = "Running"
    \/ self.name = "Initializing" /\ target.name = "Error"
    \/ self.name = "Running" /\ target.name = "Paused"
    \/ self.name = "Running" /\ target.name = "Completed"
    \/ self.name = "Running" /\ target.name = "Error"
    \/ self.name = "Paused" /\ target.name = "Running"
    \/ self.name = "Paused" /\ target.name = "Completed"
    \/ self.name = "Paused" /\ target.name = "Error"
    \/ self.name = "Completed" /\ target.name = "Idle"
    \/ self.name = "Error" /\ self.recoverable /\ target.name = "Idle"

\* ------------------------------------------- observability/metrics.rs
record_frame_processed(m) == m + 1
\* Mutant: the error is counted as a processed frame is not: not at all.
record_error_lost(m) == m

record_error(m) == m + 1
finish_processing(m) == m + 1

\* ------------------------------------------------------ channel contract
\* The receiver of a node's inbox lives in run's frame: gone once run returned.
RxClosed(n) == nodepc[n] \in {"done", "failed"}

\* The sender of run's output channel is run's `tx`: gone once run returned.
TxDropped(n) == nodepc[n] \in {"done", "failed"}

\* The receiver of run's output channel: the fan-out task (or outside receiver).
FanRxClosed(n) == fanpc[n] = "done"

\* Some sender of n's inbox is alive: the pipeline's saved sender, or the
\* output list of a fan-out task that has not finished.
InboxSenders(n) ==
    \/ n \in channels
    \/ \E f \in NodeIds : /\ fanpc[f] \in {"recv", "send"}
                          /\ \E k \in Idx(outputs[f]) : connections[outputs[f][k]][2] = n

\* Mutant: a channel that hands out the newest frame first.
EnqueueFront(q, frame) == <<frame>> \o q

\* A send that found room: the frame joins the back of the queue.
Enqueue(q, frame) == Append(q, frame)


\* ------------------------------- resilience/resilient_node.rs 36..81 (run)
\* ProcessingNode::process of the wrapped node on a frame that it accepts:
\* the nodes return their input with the payload transformed.
Process(frame) == [seq |-> frame.seq, hops |-> frame.hops + 1, via |-> 0]

\* line 41: rx.recv().await. A frame when the inbox holds one; None, ending
\* the loop with Ok, when it is empty and every sender is gone; else suspended.
NodeRecv(n) ==
    /\ nodepc[n] = "recv"
    /\ \/ /\ inbox[n] # << >>
          /\ held' = [held EXCEPT ![n] = Head(inbox[n])]
          /\ inbox' = [inbox EXCEPT ![n] = Tail(@)]
          /\ nodepc' = [nodepc EXCEPT ![n] = "process"]
       \/ /\ inbox[n] = << >>
          /\ ~InboxSenders(n)
          /\ nodepc' = [nodepc EXCEPT ![n] = "done"]
          /\ UNCHANGED <<held, inbox>>
    /\ UNCHANGED <<policy, fan, frames_processed, errors_count, latency_samples, hist, emitted>>
    /\ UNCHANGED <<pipeVars, fanVars, callVars>>
    /\ ret' = NoReturn
    /\ UNCHANGED otherVars

\* lines 49-53: process returned Ok(output).
ProcessOk(n) ==
    /\ latency_samples' = [latency_samples EXCEPT ![n] = finish_processing(@)]
    /\ frames_processed' = [frames_processed EXCEPT ![n] = record_frame_processed(@)]
    /\ held' = [held EXCEPT ![n] = Process(held[n])]
    /\ nodepc' = [nodepc EXCEPT ![n] = "send"]
    /\ UNCHANGED errors_count

\* Mutant: SkipFrame handled like Propagate (the loop ends on the error).
ProcessErrSkipStops(n) ==
    /\ errors_count' = [errors_count EXCEPT ![n] = @ + 1]
    /\ UNCHANGED <<frames_processed, latency_samples>>
    /\ \/ /\ policy[n] \in {"Propagate", "SkipFrame"}
          /\ nodepc' = [nodepc EXCEPT ![n] = "failed"]
          /\ held' = [held EXCEPT ![n] = NoFrame]
       \/ /\ policy[n] = "UseDefault"
          /\ nodepc' = [nodepc EXCEPT ![n] = "send"]
          /\ held' = [held EXCEPT ![n] = DefaultFrame]

\* Mutant: UseDefault handled like SkipFrame (nothing is emitted for the
\* failed input).
ProcessErrDefaultSkips(n) ==
    /\ errors_count' = [errors_count EXCEPT ![n] = @ + 1]
    /\ UNCHANGED <<frames_processed, latency_samples>>
    /\ \/ /\ policy[n] = "Propagate"
          /\ nodepc' = [nodepc EXCEPT ![n] = "failed"]
          /\ held' = [held EXCEPT ![n] = NoFrame]
       \/ /\ policy[n] \in {"SkipFrame", "UseDefault"}
          /\ nodepc' = [nodepc EXCEPT ![n] = "recv"]
          /\ held' = [held EXCEPT ![n] = NoFrame]

\* lines 58-76: process returned Err; the policy decides.
ProcessErr(n) ==
    /\ errors_count' = [errors_count EXCEPT ![n] = record_error(@)]
    /\ UNCHANGED <<frames_processed, latency_samples>>
    /\ \/ /\ policy[n] = "Propagate"
          /\ nodepc' = [nodepc EXCEPT ![n] = "failed"]
          /\ held' = [held EXCEPT ![n] = NoFrame]
       \/ /\ policy[n] = "SkipFrame"
          /\ nodepc' = [nodepc EXCEPT ![n] = "recv"]
          /\ held' = [held EXCEPT ![n] = NoFrame]
       \/ /\ policy[n] = "UseDefault"
          /\ nodepc' = [nodepc EXCEPT ![n] = "send"]
          /\ held' = [held EXCEPT ![n] = DefaultFrame]

\* lines 42-48: the wrapped node's process runs on the received frame and
\* either succeeds or fails.
ProcessCall(n, ok) ==
    /\ nodepc[n] = "process"
    /\ hist' = [hist EXCEPT ![n] = Append(@, [frame |-> held[n], ok |-> ok])]
    /\ IF ok THEN ProcessOk(n) ELSE ProcessErr(n)
    /\ UNCHANGED <<inbox, policy, fan, emitted>>
    /\ UNCHANGED <<pipeVars, fanVars, callVars>>
    /\ ret' = NoReturn
    /\ UNCHANGED otherVars

NodeProcess(n) == \E ok \in BOOLEAN : ProcessCall(n, ok)

\* The same step of a node whose process accepts every frame.
NodeProcessOk(n) == ProcessCall(n, TRUE)

\* lines 54-56 and 71-73: tx.send(..).await. Fails, breaking the loop with Ok,
\* when the receiver is gone; suspended while the channel is full.
NodeSend(n) ==
    /\ nodepc[n] = "send"
    /\ \/ /\ FanRxClosed(n)
          /\ nodepc' = [nodepc EXCEPT ![n] = "done"]
          /\ held' = [held EXCEPT ![n] = NoFrame]
          /\ UNCHANGED <<fan, emitted>>
       \/ /\ ~FanRxClosed(n)
          /\ Len(fan[n]) < channel_capacity
          /\ fan' = [fan EXCEPT ![n] = Enqueue(@, held[n])]
          /\ emitted' = [emitted EXCEPT ![n] = Append(@, held[n])]
          /\ nodepc' = [nodepc EXCEPT ![n] = "recv"]
          /\ held' = [held EXCEPT ![n] = NoFrame]
    /\ UNCHANGED <<inbox, policy, frames_processed, errors_count, latency_samples, hist>>
    /\ UNCHANGED <<pipeVars, fanVars, callVars>>
    /\ ret' = NoReturn
    /\ UNCHANGED otherVars

\* ---------------------- engine/async_pipeline.rs 164..170 (fan-out task)
\* line 165: fanout_rx.recv().await; with no outputs the loop body does nothing.
FanRecv(n) ==
    /\ fanpc[n] = "recv"
    /\ \/ /\ fan[n] # << >>
          /\ fan' = [fan EXCEPT ![n] = Tail(@)]
          /\ IF outputs[n] = << >>
             THEN UNCHANGED <<fanpc, fanheld, fanidx>>
             ELSE /\ fanheld' = [fanheld EXCEPT ![n] = Head(fan[n])]
                  /\ fanidx' = [fanidx EXCEPT ![n] = 1]
                  /\ fanpc' = [fanpc EXCEPT ![n] = "send"]
       \/ /\ fan[n] = << >>
          /\ TxDropped(n)
          /\ fanpc' = [fanpc EXCEPT ![n] = "done"]
          /\ UNCHANGED <<fan, fanheld, fanidx>>
    /\ UNCHANGED <<inbox, nodepc, held, policy, frames_processed, errors_count,
                   latency_samples, hist, emitted, outputs>>
    /\ UNCHANGED <<pipeVars, callVars>>
    /\ ret' = NoReturn
    /\ UNCHANGED otherVars

\* Mutant: try_send in place of send().await: a full inbox drops the frame.
FanSendTry(n) ==
    /\ fanpc[n] = "send"
    /\ LET e == outputs[n][fanidx[n]]
           to == connections[e][2]
       IN \/ /\ RxClosed(to) \/ Len(inbox[to]) >= channel_capacity
             /\ UNCHANGED inbox
          \/ /\ ~RxClosed(to)
             /\ Len(inbox[to]) < channel_capacity
             /\ inbox' = [inbox EXCEPT ![to] = Append(@, [fanheld[n] EXCEPT !.via = e])]
    /\ IF fanidx[n] < Len(outputs[n])
       THEN /\ fanidx' = [fanidx EXCEPT ![n] = @ + 1]
            /\ UNCHANGED <<fanpc, fanheld>>
       ELSE /\ fanidx' = [fanidx EXCEPT ![n] = 0]
            /\ fanheld' = [fanheld EXCEPT ![n] = NoFrame]
            /\ fanpc' = [fanpc EXCEPT ![n] = "recv"]
    /\ UNCHANGED <<nodepc, held, policy, fan, frames_processed, errors_count,
                   latency_samples, hist, emitted, outputs>>
    /\ UNCHANGED <<pipeVars, callVars>>
    /\ ret' = NoReturn
    /\ UNCHANGED otherVars

\* lines 166-168: `let _ = output.send(frame.clone()).await` for the next
\* output: a failed send (receiver gone) is ignored; a full inbox suspends.
FanSend(n) ==
    /\ fanpc[n] = "send"
    /\ LET e == outputs[n][fanidx[n]]
           to == connections[e][2]
       IN \/ /\ RxClosed(to)
             /\ UNCHANGED inbox
          \/ /\ ~RxClosed(to)
             /\ Len(inbox[to]) < channel_capacity
             /\ inbox' = [inbox EXCEPT ![to] = Enqueue(@, [fanheld[n] EXCEPT !.via = e])]
    /\ IF fanidx[n] < Len(outputs[n])
       THEN /\ fanidx' = [fanidx EXCEPT ![n] = @ + 1]
            /\ UNCHANGED <<fanpc, fanheld>>
       ELSE /\ fanidx' = [fanidx EXCEPT ![n] = 0]
            /\ fanheld' = [fanheld EXCEPT ![n] = NoFrame]
            /\ fanpc' = [fanpc EXCEPT ![n] = "recv"]
    /\ UNCHANGED <<nodepc, held, policy, fan, frames_processed, errors_count,
                   latency_samples, hist, emitted, outputs>>
    /\ UNCHANGED <<pipeVars, callVars>>
    /\ ret' = NoReturn
    /\ UNCHANGED otherVars

\* lines 155-175: the result of the task whose handle the pipeline keeps:
\* `node_task.await??` returns the node's error at once; otherwise the task
\* also awaits the fan-out task.
HandleResult(n) ==
    IF nodepc[n] = "failed" THEN "err"
    ELSE IF nodepc[n] = "done" /\ fanpc[n] = "done" THEN "ok"
    ELSE "running"


\* -------------------------------------------- engine/async_pipeline.rs
\* The caller is inside no operation of the pipeline.
NoCall == [op |-> "none", frame |-> NoFrame, pending |-> {}, wait |-> None]
NoCaller == call.op = "none"

\* lines 132-138: the output senders of node n, one per connection leaving n,
\* in declaration order (as indexes into connections).
\* Mutant: only the first connection out of a node gets an output sender.
OutputsOfFirst(n) ==
    LET all == SelectSeq([i \in Idx(connections) |-> i], LAMBDA i : connections[i][1] = n)
    IN IF all = << >> THEN all ELSE <<Head(all)>>

OutputsOf(n) == SelectSeq([i \in Idx(connections) |-> i], LAMBDA i : connections[i][1] = n)

\* lines 125-129: the source's sender is saved when the source is in the map.
SavedChannels == IF source_node_id \in nodes THEN channels \cup {source_node_id} ELSE channels

\* lines 144-178: the tasks spawned for node n: one ResilientNode::run over a
\* fresh inbox, wrapped with Propagate, and one fan-out task.
SpawnCount(n) == IF n \in nodes THEN 1 ELSE 0

\* Mutant: the node map iterated without being drained.
NodesKept == nodes

\* line 144: `self.nodes.drain()` moves every node into its task and leaves
\* the map empty.
NodesAfterSpawn == {}

\* lines 99-109: transition_to, a public operation.
TransitionTo(target) ==
    /\ NoCaller
    /\ IF can_transition_to(state, target)
       THEN /\ state' = target
            /\ ret' = Returned("transition_to", target, "ok")
       ELSE /\ UNCHANGED state
            /\ ret' = Returned("transition_to", target, "err")
    /\ UNCHANGED <<nodes, connections, channel_capacity, source_node_id, channels, handles,
                   configured, budget>>
    /\ UNCHANGED <<call, accepted, spawned, sunk>>
    /\ UNCHANGED <<nodeVars, fanVars>>
    /\ UNCHANGED otherVars

\* line 137: `node_channels.get(to).unwrap()` panics on a connection whose
\* target has no channel, i.e. is not in the node map (118-122).
DanglingConnection == \E i \in Idx(connections) : connections[i][2] \notin nodes

\* The caller's thread unwound out of start: the pipeline takes no further call.
Panicked == [op |-> "panicked", frame |-> NoFrame, pending |-> {}, wait |-> None]

\* lines 111-178: start up to the spawning of the tasks.  The first
\* transition_to rejects a pipeline that is not Idle.  A dangling connection
\* aborts start after the state change and the saving of the source's sender.
StartSpawn ==
    /\ NoCaller
    /\ IF ~can_transition_to(state, St("Initializing"))
       THEN /\ ret' = Returned("start", NoState, "err")
            /\ UNCHANGED <<nodes, channels, handles, state, call, spawned>>
            /\ UNCHANGED <<nodeVars, fanVars>>
       ELSE IF DanglingConnection
       THEN /\ state' = St("Initializing")
            /\ channels' = SavedChannels
            /\ call' = Panicked
            /\ ret' = Returned("start", NoState, "panic")
            /\ UNCHANGED <<nodes, handles, spawned>>
            /\ UNCHANGED <<nodeVars, fanVars>>
       ELSE /\ state' = St("Initializing")
            /\ channels' = SavedChannels
            /\ inbox' = [n \in NodeIds |-> IF n \in nodes THEN << >> ELSE inbox[n]]
            /\ fan' = [n \in NodeIds |-> IF n \in nodes THEN << >> ELSE fan[n]]
            /\ outputs' = [n \in NodeIds |-> IF n \in nodes THEN OutputsOf(n) ELSE outputs[n]]
            /\ policy' = [n \in NodeIds |-> IF n \in nodes THEN "Propagate" ELSE policy[n]]
            /\ nodepc' = [n \in NodeIds |-> IF n \in nodes THEN "recv" ELSE nodepc[n]]
            /\ fanpc' = [n \in NodeIds |-> IF n \in nodes THEN "recv" ELSE fanpc[n]]
            /\ spawned' = [n \in NodeIds |-> spawned[n] + SpawnCount(n)]
            /\ handles' = handles \cup nodes
            /\ nodes' = NodesAfterSpawn
            /\ call' = [op |-> "start", frame |-> NoFrame, pending |-> {}, wait |-> None]
            /\ ret' = NoReturn
            /\ UNCHANGED <<held, fanheld, fanidx, frames_processed, errors_count,
                           latency_samples, hist, emitted>>
    /\ UNCHANGED <<connections, channel_capacity, source_node_id, configured, budget>>
    /\ UNCHANGED <<accepted, sunk>>
    /\ UNCHANGED otherVars

\* lines 180-187: start's second transition, to Running.
StartRunning ==
    /\ call.op = "start"
    /\ IF can_transition_to(state, St("Running"))
       THEN /\ state' = St("Running")
            /\ ret' = Returned("start", NoState, "ok")
       ELSE /\ UNCHANGED state
            /\ ret' = Returned("start", NoState, "err")
    /\ call' = NoCall
    /\ UNCHANGED <<nodes, connections, channel_capacity, source_node_id, channels, handles,
                   configured, budget>>
    /\ UNCHANGED <<accepted, spawned, sunk>>
    /\ UNCHANGED <<nodeVars, fanVars>>
    /\ UNCHANGED otherVars

\* lines 190-197: trigger is called with a fresh frame (the caller numbers the
\* frames it gets accepted 0, 1, ...).  Without a source id or without a saved
\* sender it returns Ok at once; otherwise it awaits send.
TriggerCall ==
    /\ NoCaller
    /\ accepted < budget
    /\ IF source_node_id # None /\ source_node_id \in channels
       THEN /\ call' = [op |-> "trigger",
                        frame |-> [seq |-> accepted, hops |-> 0, via |-> 0],
                        pending |-> {}, wait |-> None]
            /\ ret' = NoReturn
       ELSE /\ ret' = Returned("trigger", NoState, "ok")
            /\ UNCHANGED call
    /\ UNCHANGED <<pipeVars, nodeVars, fanVars>>
    /\ UNCHANGED <<accepted, spawned, sunk>>
    /\ UNCHANGED otherVars

\* Mutant: a send that makes room by overwriting the newest queued frame.
TriggerSendOverwrite ==
    /\ call.op = "trigger"
    /\ ~RxClosed(source_node_id)
    /\ inbox' = [inbox EXCEPT ![source_node_id] =
                    IF Len(@) < channel_capacity THEN Append(@, call.frame)
                    ELSE Append(SubSeq(@, 1, Len(@) - 1), call.frame)]
    /\ accepted' = accepted + 1
    /\ ret' = Returned("trigger", NoState, "ok")
    /\ call' = NoCall
    /\ UNCHANGED <<nodepc, held, policy, fan, frames_processed, errors_count,
                   latency_samples, hist, emitted>>
    /\ UNCHANGED <<pipeVars, fanVars>>
    /\ UNCHANGED <<spawned, sunk>>
    /\ UNCHANGED otherVars

\* line 193: tx.send(frame).await completes once the source inbox has room.
TriggerSend ==
    /\ call.op = "trigger"
    /\ ~RxClosed(source_node_id)
    /\ Len(inbox[source_node_id]) < channel_capacity
    /\ inbox' = [inbox EXCEPT ![source_node_id] = Enqueue(@, call.frame)]
    /\ accepted' = accepted + 1
    /\ ret' = Returned("trigger", NoState, "ok")
    /\ call' = NoCall
    /\ UNCHANGED <<nodepc, held, policy, fan, frames_processed, errors_count,
                   latency_samples, hist, emitted>>
    /\ UNCHANGED <<pipeVars, fanVars>>
    /\ UNCHANGED <<spawned, sunk>>
    /\ UNCHANGED otherVars

\* line 193: the send fails once the source's receiver is gone.
TriggerFail ==
    /\ call.op = "trigger"
    /\ RxClosed(source_node_id)
    /\ ret' = Returned("trigger", NoState, "err")
    /\ call' = NoCall
    /\ UNCHANGED <<pipeVars, nodeVars, fanVars>>
    /\ UNCHANGED <<accepted, spawned, sunk>>
    /\ UNCHANGED otherVars

\* The caller gives up on a suspended trigger (tokio::time::timeout drops
\* the future, tests/engine_backpressure_tests.rs 25-28): nothing is sent.
TriggerTimeout ==
    /\ call.op = "trigger"
    /\ ~RxClosed(source_node_id)
    /\ Len(inbox[source_node_id]) >= channel_capacity
    /\ ret' = Returned("trigger", NoState, "timeout")
    /\ call' = NoCall
    /\ UNCHANGED <<pipeVars, nodeVars, fanVars>>
    /\ UNCHANGED <<accepted, spawned, sunk>>
    /\ UNCHANGED otherVars

\* lines 199-214: stop moves Running to Completed, drops the saved senders and
\* takes the handles; it then awaits them in the order of the handle list
\* (the iteration order of a HashMap: any order).
StopCall ==
    /\ NoCaller
    /\ state' = IF state.name = "Running" THEN St("Completed") ELSE state
    /\ channels' = {}
    /\ handles' = {}
    /\ \E w \in IF handles = {} THEN {None} ELSE handles :
          call' = [op |-> "stop", frame |-> NoFrame, pending |-> handles, wait |-> w]
    /\ UNCHANGED <<nodes, connections, channel_capacity, source_node_id, configured, budget>>
    /\ UNCHANGED <<accepted, spawned, sunk>>
    /\ ret' = NoReturn
    /\ UNCHANGED <<nodeVars, fanVars>>
    /\ UNCHANGED otherVars

\* lines 215-217: `handle.await??` on the awaited handle: Ok moves on to the
\* next handle, Err returns from stop at once, dropping the remaining handles.
StopJoin ==
    /\ call.op = "stop"
    /\ call.wait # None
    /\ HandleResult(call.wait) # "running"
    /\ IF HandleResult(call.wait) = "ok"
       THEN /\ LET rest == call.pending \ {call.wait}
               IN \E w \in IF rest = {} THEN {None} ELSE rest :
                     call' = [call EXCEPT !.pending = rest, !.wait = w]
            /\ ret' = NoReturn
       ELSE /\ ret' = Returned("stop", NoState, "err")
            /\ call' = NoCall
    /\ UNCHANGED <<pipeVars, nodeVars, fanVars>>
    /\ UNCHANGED <<accepted, spawned, sunk>>
    /\ UNCHANGED otherVars

\* line 219: every handle returned Ok.
StopReturn ==
    /\ call.op = "stop"
    /\ call.pending = {}
    /\ ret' = Returned("stop", NoState, "ok")
    /\ call' = NoCall
    /\ UNCHANGED <<pipeVars, nodeVars, fanVars>>
    /\ UNCHANGED <<accepted, spawned, sunk>>
    /\ UNCHANGED otherVars

\* ------------------------------------------------------ the specifications
\* The runtime state before start: nothing spawned, nothing counted.
NothingRunning ==
    /\ inbox = [n \in NodeIds |-> << >>]
    /\ nodepc = [n \in NodeIds |-> None]
    /\ held = [n \in NodeIds |-> NoFrame]
    /\ fan = [n \in NodeIds |-> << >>]
    /\ fanpc = [n \in NodeIds |-> None]
    /\ fanheld = [n \in NodeIds |-> NoFrame]
    /\ fanidx = [n \in NodeIds |-> 0]
    /\ outputs = [n \in NodeIds |-> << >>]
    /\ frames_processed = [n \in NodeIds |-> 0]
    /\ errors_count = [n \in NodeIds |-> 0]
    /\ latency_samples = [n \in NodeIds |-> 0]
    /\ call = NoCall
    /\ ret = NoReturn
    /\ accepted = 0
    /\ spawned = [n \in NodeIds |-> 0]
    /\ hist = [n \in NodeIds |-> << >>]
    /\ emitted = [n \in NodeIds |-> << >>]
    /\ sunk = << >>

\* from_json, lines 25-86: the pipeline as constructed from a configuration
\* of cfgs: Idle, no channels, no handles, the source a node without an
\* incoming connection.
FromJson(cfgs) ==
    /\ \E cfg \in cfgs :
          /\ nodes = cfg.nodes
          /\ configured = cfg.nodes
          /\ connections = cfg.connections
          /\ channel_capacity = cfg.cap
          /\ source_node_id \in
                IF SourceCandidates(cfg.nodes, cfg.connections) = {}
                THEN {None} ELSE SourceCandidates(cfg.nodes, cfg.connections)
    /\ channels = {}
    /\ handles = {}
    /\ state = St("Idle")
    /\ policy = [n \in NodeIds |-> "Propagate"]

Init == FromJson(Configs) /\ budget = MaxFrames /\ NothingRunning /\ OthersIdle

\* The steps of the spawned tasks.
TaskStep ==
    \/ \E n \in NodeIds : NodeRecv(n)
    \/ \E n \in NodeIds : NodeProcess(n)
    \/ \E n \in NodeIds : NodeSend(n)
    \/ \E n \in NodeIds : FanRecv(n)
    \/ \E n \in NodeIds : FanSend(n)

\* start, trigger and stop.
RunStep ==
    \/ StartSpawn
    \/ StartRunning
    \/ TriggerCall
    \/ TriggerSend
    \/ TriggerFail
    \/ TriggerTimeout
    \/ StopCall
    \/ StopJoin
    \/ StopReturn

Next ==
    \/ \E t \in PipelineStates : TransitionTo(t)
    \/ RunStep
    \/ TaskStep

\* The pipeline under its whole public interface.
Spec == Init /\ [][Next]_vars

\* The pipeline on the three-node graphs, driven through start, trigger and stop.
InitFlow == FromJson(FlowConfigs) /\ budget = FlowFrames /\ NothingRunning /\ OthersIdle

NextFlow == RunStep \/ TaskStep

SpecFlow == InitFlow /\ [][NextFlow]_vars

\* The same pipeline with nodes whose process never fails; the runtime polls
\* every task that can take a step.
TaskStepOk ==
    \/ \E n \in NodeIds : NodeRecv(n)
    \/ \E n \in NodeIds : NodeProcessOk(n)
    \/ \E n \in NodeIds : NodeSend(n)
    \/ \E n \in NodeIds : FanRecv(n)
    \/ \E n \in NodeIds : FanSend(n)

\* No task ends before stop drops the channels, so the source's receiver
\* outlives every saved sender and trigger's send never fails here.
NextFlowOk ==
    \/ StartSpawn
    \/ StartRunning
    \/ TriggerCall
    \/ TriggerSend
    \/ TriggerTimeout
    \/ StopCall
    \/ StopJoin
    \/ StopReturn
    \/ TaskStepOk

FairFlow == InitFlow /\ [][NextFlowOk]_vars /\ WF_vars(TaskStepOk)


\* The pipeline on a chain A -> B and on the cycle A -> B -> A.  from_json
\* (56-74) accepts both; in the cycle every node has an incoming connection,
\* so there is no source.  The caller's stop is polled like the tasks.
CycleConfigs ==
    { [nodes |-> {"A", "B"}, connections |-> << <<"A", "B">> >>, cap |-> 1],
      [nodes |-> {"A", "B"}, connections |-> << <<"A", "B">>, <<"B", "A">> >>, cap |-> 1] }

InitCycle == FromJson(CycleConfigs) /\ budget = FlowFrames /\ NothingRunning /\ OthersIdle

FairCycle ==
    InitCycle /\ [][NextFlowOk]_vars /\ WF_vars(TaskStepOk) /\ WF_vars(StopJoin \/ StopReturn)


\* The pipeline on a chain A -> B and on a configuration whose only
\* connection names a node "B" that is not declared; from_json (56-69) reads
\* the endpoints as strings and accepts both.
EndpointConfigs ==
    { [nodes |-> {"A", "B"}, connections |-> << <<"A", "B">> >>, cap |-> 1],
      [nodes |-> {"A"}, connections |-> << <<"A", "B">> >>, cap |-> 1] }

InitEndpoints == FromJson(EndpointConfigs) /\ budget = FlowFrames /\ NothingRunning /\ OthersIdle

SpecEndpoints == InitEndpoints /\ [][Next]_vars


\* ------------------------------------------------------------------------
\* ResilientNode::run driven directly (resilient_node.rs 36-40): node "A"
\* runs over an inbox `rx` whose sender the caller holds and an output
\* channel `tx` whose receiver the caller holds.
Node == "A"

\* The caller sends the next frame into rx.
Feed ==
    /\ Node \in channels
    /\ accepted < budget
    /\ ~RxClosed(Node)
    /\ Len(inbox[Node]) < channel_capacity
    /\ inbox' = [inbox EXCEPT ![Node] = Enqueue(@, [seq |-> accepted, hops |-> 0, via |-> 0])]
    /\ accepted' = accepted + 1
    /\ UNCHANGED <<nodepc, held, policy, fan, frames_processed, errors_count,
                   latency_samples, hist, emitted>>
    /\ UNCHANGED <<pipeVars, fanVars, call, spawned, sunk, ret>>
    /\ UNCHANGED otherVars

\* The caller drops the sender of rx.
CloseInput ==
    /\ Node \in channels
    /\ channels' = {}
    /\ UNCHANGED <<nodes, connections, channel_capacity, source_node_id, handles, state,
                   configured, budget>>
    /\ UNCHANGED <<nodeVars, fanVars, callVars, ret>>
    /\ UNCHANGED otherVars

\* The caller receives a frame from tx's channel.
Drain ==
    /\ fanpc[Node] = "ext"
    /\ fan[Node] # << >>
    /\ sunk' = Append(sunk, Head(fan[Node]))
    /\ fan' = [fan EXCEPT ![Node] = Tail(@)]
    /\ UNCHANGED <<inbox, nodepc, held, policy, frames_processed, errors_count,
                   latency_samples, hist, emitted>>
    /\ UNCHANGED <<pipeVars, fanVars, call, accepted, spawned, ret>>
    /\ UNCHANGED otherVars

\* The caller drops the receiver of tx's channel.
DropOutput ==
    /\ fanpc[Node] = "ext"
    /\ fanpc' = [fanpc EXCEPT ![Node] = "done"]
    /\ UNCHANGED <<fanheld, fanidx, outputs>>
    /\ UNCHANGED <<pipeVars, nodeVars, callVars, ret>>
    /\ UNCHANGED otherVars

\* ResilientNode::new (lines 17-27) with any policy, and run just called.
InitResilient ==
    /\ nodes = {}
    /\ configured = {Node}
    /\ connections = << >>
    /\ channel_capacity \in {1, 2}
    /\ source_node_id = None
    /\ channels = {Node}
    /\ handles = {}
    /\ state = St("Idle")
    /\ budget = MaxFrames
    /\ policy \in {[n \in NodeIds |-> p] : p \in Policies}
    /\ inbox = [n \in NodeIds |-> << >>]
    /\ nodepc = [n \in NodeIds |-> IF n = Node THEN "recv" ELSE None]
    /\ held = [n \in NodeIds |-> NoFrame]
    /\ fan = [n \in NodeIds |-> << >>]
    /\ fanpc = [n \in NodeIds |-> IF n = Node THEN "ext" ELSE None]
    /\ fanheld = [n \in NodeIds |-> NoFrame]
    /\ fanidx = [n \in NodeIds |-> 0]
    /\ outputs = [n \in NodeIds |-> << >>]
    /\ frames_processed = [n \in NodeIds |-> 0]
    /\ errors_count = [n \in NodeIds |-> 0]
    /\ latency_samples = [n \in NodeIds |-> 0]
    /\ call = NoCall
    /\ ret = NoReturn
    /\ accepted = 0
    /\ spawned = [n \in NodeIds |-> IF n = Node THEN 1 ELSE 0]
    /\ hist = [n \in NodeIds |-> << >>]
    /\ emitted = [n \in NodeIds |-> << >>]
    /\ sunk = << >>
    /\ OthersIdle

NextResilient ==
    \/ Feed
    \/ CloseInput
    \/ Drain
    \/ DropOutput
    \/ NodeRecv(Node)
    \/ NodeProcess(Node)
    \/ NodeSend(Node)

SpecResilient == InitResilient /\ [][NextResilient]_vars


\* ------------------------------------------------------------------------
\* engine/scheduler.rs and engine/priority.rs: the priority scheduler.
\* ------------------------------------------------------------------------
\* No pipeline in use.
PipelineUnused ==
    /\ FromJson({[nodes |-> {}, connections |-> << >>, cap |-> 1]})
    /\ budget = 0
    /\ NothingRunning

\* priority.rs 6-15 and 29-36.
Priority == {"Critical", "High", "Normal", "Low"}
value(p) == CASE p = "Critical" -> 3 [] p = "High" -> 2 [] p = "Normal" -> 1 [] p = "Low" -> 0

\* usize::cmp / u8::cmp.
IntCmp(a, b) == IF a < b THEN "Less" ELSE IF a > b THEN "Greater" ELSE "Equal"

\* priority.rs 45-49: Ord for Priority.
priority_cmp(self, other) == IntCmp(value(self), value(other))

\* Mutant: equal priorities ordered newest first.
cmp_newest_first(self, other) ==
    LET o == priority_cmp(self.priority, other.priority)
    IN IF o = "Equal" THEN IntCmp(self.task_id, other.task_id) ELSE o

\* scheduler.rs 28-36: Ord for PrioritizedTask: by priority, then the
\* smaller task_id is the greater task.
cmp(self, other) ==
    LET o == priority_cmp(self.priority, other.priority)
    IN IF o = "Equal" THEN IntCmp(other.task_id, self.task_id) ELSE o

\* BinaryHeap::pop: the greatest element of the heap.
HeapMax(heap) == CHOOSE t \in heap : \A u \in heap : cmp(u, t) # "Greater"

\* The state of the future of task id t (ids count from 0).
TaskState(t) == task[t + 1]
Terminated(t) == TaskState(t) \in {"finished", "panicked"}

\* The admitted tasks that have not finished.
ActiveUnfinished == {i \in Idx(active_tasks) : ~Terminated(active_tasks[i])}

\* scheduler.rs 72: the test that admits a task.
Admit == Len(active_tasks) < max_concurrent

\* scheduler.rs 60-79: schedule_task. The future is spawned (line 64) before
\* the scheduler decides where to keep its handle.
ScheduleTask(priority) ==
    /\ spc = "idle"
    /\ next_task_id < MaxTasks
    /\ task' = Append(task, "spawned")
    /\ next_task_id' = next_task_id + 1
    /\ IF Admit
       THEN /\ active_tasks' = Append(active_tasks, next_task_id)
            /\ UNCHANGED pending_queue
       ELSE /\ pending_queue' = pending_queue \cup
                                   {[priority |-> priority, task_id |-> next_task_id]}
            /\ UNCHANGED active_tasks
    /\ scheduled' = Append(scheduled, [result |-> Admit,
                                        unfinished |-> Cardinality(ActiveUnfinished)])
    /\ UNCHANGED <<max_concurrent, completed, spc, widx, left>>
    /\ UNCHANGED notSched

\* tokio::spawn (line 64): the runtime polls the future, whatever the
\* scheduler did with its handle.
TaskStart(t) ==
    /\ t < next_task_id
    /\ TaskState(t) = "spawned"
    /\ task' = [task EXCEPT ![t + 1] = "running"]
    /\ UNCHANGED <<max_concurrent, active_tasks, pending_queue, next_task_id, completed,
                   spc, widx, scheduled, left>>
    /\ UNCHANGED notSched

\* The future returns its value, or panics.
TaskEndAs(t, how) ==
    /\ t < next_task_id
    /\ TaskState(t) = "running"
    /\ task' = [task EXCEPT ![t + 1] = how]
    /\ UNCHANGED <<max_concurrent, active_tasks, pending_queue, next_task_id, completed,
                   spc, widx, scheduled, left>>
    /\ UNCHANGED notSched

TaskEnd(t) == \E how \in {"finished", "panicked"} : TaskEndAs(t, how)

\* The end of a task that does not panic.
TaskFinish(t) == TaskEndAs(t, "finished")

\* scheduler.rs 118: wait_all takes the scheduler by value.
WaitAllCall ==
    /\ spc = "idle"
    /\ spc' = "moving"
    /\ UNCHANGED <<max_concurrent, active_tasks, pending_queue, next_task_id, completed,
                   task, widx, scheduled, left>>
    /\ UNCHANGED notSched

\* scheduler.rs 120-122: one turn of `while let Some(task) = pending_queue.pop()`.
WaitAllPop ==
    /\ spc = "moving"
    /\ pending_queue # {}
    /\ LET popped == HeapMax(pending_queue)
       IN /\ pending_queue' = pending_queue \ {popped}
          /\ active_tasks' = Append(active_tasks, popped.task_id)
          /\ left' = Append(left, popped)
    /\ UNCHANGED <<max_concurrent, next_task_id, completed, task, spc, widx, scheduled>>
    /\ UNCHANGED notSched

\* Mutant: the pop loop may stop while tasks are still pending.
WaitAllMovedEarly ==
    /\ spc = "moving"
    /\ spc' = "waiting"
    /\ widx' = 1
    /\ UNCHANGED <<max_concurrent, active_tasks, pending_queue, next_task_id, completed,
                   task, scheduled, left>>
    /\ UNCHANGED notSched

\* scheduler.rs 120, 125: the heap is empty; the for loop starts.
WaitAllMoved ==
    /\ spc = "moving"
    /\ pending_queue = {}
    /\ spc' = "waiting"
    /\ widx' = 1
    /\ UNCHANGED <<max_concurrent, active_tasks, pending_queue, next_task_id, completed,
                   task, scheduled, left>>
    /\ UNCHANGED notSched

\* scheduler.rs 125-129: handle.await completes once the task has ended; the
\* result of a task that panicked is an Err and is dropped.
WaitAllAwait ==
    /\ spc = "waiting"
    /\ widx <= Len(active_tasks)
    /\ Terminated(active_tasks[widx])
    /\ completed' = IF TaskState(active_tasks[widx]) = "finished"
                    THEN Append(completed, active_tasks[widx]) ELSE completed
    /\ widx' = widx + 1
    /\ UNCHANGED <<max_concurrent, active_tasks, pending_queue, next_task_id, task, spc,
                   scheduled, left>>
    /\ UNCHANGED notSched

\* scheduler.rs 131: wait_all returns self.completed.
WaitAllReturn ==
    /\ spc = "waiting"
    /\ widx > Len(active_tasks)
    /\ spc' = "returned"
    /\ UNCHANGED <<max_concurrent, active_tasks, pending_queue, next_task_id, completed,
                   task, widx, scheduled, left>>
    /\ UNCHANGED notSched

\* PipelineScheduler::new (lines 48-56) with a ceiling of 1 or 2.
InitSched ==
    /\ max_concurrent \in {1, 2}
    /\ active_tasks = << >>
    /\ pending_queue = {}
    /\ next_task_id = 0
    /\ completed = << >>
    /\ task = << >>
    /\ spc = "idle"
    /\ widx = 0
    /\ scheduled = << >>
    /\ left = << >>
    /\ PipelineUnused /\ KernelIdle /\ DevicesIdle /\ RestIdle

\* The steps the runtime and the awaiting owner take by themselves.
SchedRun ==
    \/ \E t \in 0..(MaxTasks - 1) : TaskStart(t)
    \/ \E t \in 0..(MaxTasks - 1) : TaskEnd(t)
    \/ WaitAllPop
    \/ WaitAllMoved
    \/ WaitAllAwait
    \/ WaitAllReturn

NextSched ==
    \/ \E p \in Priority : ScheduleTask(p)
    \/ WaitAllCall
    \/ SchedRun

allVars == <<vars, otherVars>>

SpecSched == InitSched /\ [][NextSched]_allVars

\* The scheduler with tasks that do not panic: every spawned future is
\* polled until it returns, and wait_all runs on.
SchedRunOk ==
    \/ \E t \in 0..(MaxTasks - 1) : TaskStart(t)
    \/ \E t \in 0..(MaxTasks - 1) : TaskFinish(t)
    \/ WaitAllPop
    \/ WaitAllMoved
    \/ WaitAllAwait
    \/ WaitAllReturn

NextSchedOk ==
    \/ \E p \in Priority : ScheduleTask(p)
    \/ WaitAllCall
    \/ SchedRunOk

FairSched == InitSched /\ [][NextSchedOk]_allVars /\ WF_allVars(SchedRunOk)


\* ------------------------------------------------------------------------
\* engine/kernel.rs: the kernel runtime.
\* ------------------------------------------------------------------------
DeviceIds == {"d1", "d2"}

\* The hardware configurations: no entry, or d1, or d1 and d2, each entry
\* enabled or not.
HardwareConfigs ==
    {<< >>}
    \cup {<<[id |-> "d1", enabled |-> e]>> : e \in BOOLEAN}
    \cup {<<[id |-> "d1", enabled |-> e1], [id |-> "d2", enabled |-> e2]>> :
             e1 \in BOOLEAN, e2 \in BOOLEAN}

\* The device instances the kernel owns, and HashMap::insert.
Owned == {active_devices[id] : id \in DOMAIN active_devices}
Insert(map, id, inst) ==
    [x \in (DOMAIN map) \cup {id} |-> IF x = id THEN inst ELSE map[x]]

\* lines 50-61 and 74-76: AudioKernelRuntime::new, with or without a
\* pipeline set.
InitKernel ==
    /\ registered_devices \in HardwareConfigs
    /\ status = "Stopped"
    /\ active_devices = [id \in {} |-> 0]
    /\ device_channels = {}
    /\ pipeline \in {NoState, St("Idle")}
    /\ shutdown_tx = 0
    /\ reader_handles = << >>
    /\ readers = << >>
    /\ streaming = {}
    /\ kpc = "idle"
    /\ kidx = 0
    /\ num_channels = 0
    /\ kret = NoKReturn
    /\ attempt = [from |-> "-", did |-> << >>]
    /\ PipelineUnused /\ SchedulerIdle /\ DevicesIdle /\ RestIdle

\* lines 79-92: start is refused while Running; otherwise the status becomes
\* Initializing and a new shutdown channel replaces the old one.
KStartCall ==
    /\ kpc = "idle"
    /\ IF status = "Running"
       THEN /\ kret' = KReturned("start", status, "err", "already_running")
            /\ UNCHANGED <<status, shutdown_tx, kpc, kidx, num_channels, attempt>>
       ELSE /\ num_channels < MaxStarts
            /\ status' = "Initializing"
            /\ num_channels' = num_channels + 1
            /\ shutdown_tx' = num_channels + 1
            /\ kpc' = "devices"
            /\ kidx' = 1
            /\ attempt' = [from |-> status, did |-> << >>]
            /\ kret' = NoKReturn
    /\ UNCHANGED <<registered_devices, active_devices, device_channels, pipeline,
                   reader_handles, readers, streaming>>
    /\ UNCHANGED notKernel

\* lines 94-143: one turn of the loop over registered_devices. A disabled
\* entry is skipped; a failed create_device is logged and skipped; a failed
\* device.start() returns from start (`?`, line 117); otherwise the channels
\* are stored, a reader task is spawned and the device is inserted.
KStartDevice ==
    /\ kpc = "devices"
    /\ kidx <= Len(registered_devices)
    /\ LET r == registered_devices[kidx]
           inst == Len(readers) + 1
           outcomes == IF r.enabled THEN {"create_failed", "start_failed", "started"}
                       ELSE {"disabled"}
       IN \E did \in outcomes :
            /\ attempt' = [attempt EXCEPT !.did = Append(@, did)]
            /\ IF did = "start_failed"
               THEN /\ kpc' = "idle"
                    /\ kret' = KReturned("start", attempt.from, "err", "device_start")
                    /\ UNCHANGED kidx
               ELSE /\ kidx' = kidx + 1
                    /\ kret' = NoKReturn
                    /\ UNCHANGED kpc
            /\ IF did = "started"
               THEN /\ device_channels' = device_channels \cup {r.id}
                    /\ readers' = Append(readers, [chan |-> shutdown_tx,
                                                  signalled |-> FALSE, st |-> "running"])
                    /\ reader_handles' = Append(reader_handles, inst)
                    /\ active_devices' = Insert(active_devices, r.id, inst)
                    /\ streaming' = {i \in streaming :
                                        \E id \in DOMAIN active_devices \ {r.id} :
                                            active_devices[id] = i} \cup {inst}
               ELSE UNCHANGED <<device_channels, readers, reader_handles, active_devices,
                                streaming>>
    /\ UNCHANGED <<registered_devices, status, pipeline, shutdown_tx, num_channels>>
    /\ UNCHANGED notKernel

\* lines 145-157: after the loop. No device and some entry registered:
\* Error. Otherwise the pipeline, if set, is started (async_pipeline.rs
\* 111-187: refused unless Idle may become Initializing, then Running), and
\* the status becomes Running.
KStartFinish ==
    /\ kpc = "devices"
    /\ kidx > Len(registered_devices)
    /\ kpc' = "idle"
    /\ IF DOMAIN active_devices = {} /\ Len(registered_devices) > 0
       THEN /\ status' = "Error"
            /\ kret' = KReturned("start", attempt.from, "err", "all_failed")
            /\ UNCHANGED pipeline
       ELSE IF pipeline # NoState /\ ~can_transition_to(pipeline, St("Initializing"))
       THEN /\ kret' = KReturned("start", attempt.from, "err", "pipeline_start")
            /\ UNCHANGED <<status, pipeline>>
       ELSE /\ pipeline' = IF pipeline # NoState THEN St("Running") ELSE pipeline
            /\ status' = "Running"
            /\ kret' = KReturned("start", attempt.from, "ok", "-")
    /\ UNCHANGED <<registered_devices, active_devices, device_channels, shutdown_tx,
                   reader_handles, readers, streaming, kidx, num_channels, attempt>>
    /\ UNCHANGED notKernel

\* lines 166-174: shutdown returns at once when Stopped; otherwise it sends
\* the shutdown signal to the receivers of the current channel.
KShutdownCall ==
    /\ kpc = "idle"
    /\ IF status = "Stopped"
       THEN /\ kret' = KReturned("shutdown", status, "ok", "-")
            /\ UNCHANGED <<readers, kpc>>
       ELSE /\ readers' = [i \in Idx(readers) |->
                              IF shutdown_tx # 0 /\ readers[i].chan = shutdown_tx
                              THEN [readers[i] EXCEPT !.signalled = TRUE] ELSE readers[i]]
            /\ kpc' = "join"
            /\ kret' = NoKReturn
    /\ UNCHANGED <<registered_devices, status, active_devices, device_channels, pipeline,
                   shutdown_tx, reader_handles, streaming, kidx, num_channels, attempt>>
    /\ UNCHANGED notKernel

\* Mutant: the handle is dropped without awaiting the task.
ReaderJoinableAlways(r) == TRUE

\* The reader task of a handle has ended.
ReaderJoinable(r) == readers[r].st = "done"

\* lines 177-179: reader_handles.pop() and handle.await.
KShutdownJoin ==
    /\ kpc = "join"
    /\ reader_handles # << >>
    /\ ReaderJoinable(reader_handles[Len(reader_handles)])
    /\ reader_handles' = SubSeq(reader_handles, 1, Len(reader_handles) - 1)
    /\ kret' = NoKReturn
    /\ UNCHANGED <<registered_devices, status, active_devices, device_channels, pipeline,
                   shutdown_tx, readers, streaming, kpc, kidx, num_channels, attempt>>
    /\ UNCHANGED notKernel

\* lines 181-199: every device is stopped, the pipeline is stopped
\* (async_pipeline.rs 199-220: Running becomes Completed), the maps and the
\* channel are cleared and the status becomes Stopped.
KShutdownFinish ==
    /\ kpc = "join"
    /\ reader_handles = << >>
    /\ streaming' = {}
    /\ pipeline' = IF pipeline = St("Running") THEN St("Completed") ELSE pipeline
    /\ active_devices' = [id \in {} |-> 0]
    /\ device_channels' = {}
    /\ shutdown_tx' = 0
    /\ status' = "Stopped"
    /\ kpc' = "idle"
    /\ kret' = KReturned("shutdown", status, "ok", "-")
    /\ UNCHANGED <<registered_devices, reader_handles, readers, kidx, num_channels, attempt>>
    /\ UNCHANGED notKernel

\* lines 212-216: the reader task sees the shutdown signal and breaks.
ReaderShutdown(r) ==
    /\ r \in Idx(readers)
    /\ readers[r].st = "running"
    /\ readers[r].signalled
    /\ readers' = [readers EXCEPT ![r].st = "done"]
    /\ kret' = NoKReturn
    /\ UNCHANGED <<registered_devices, status, active_devices, device_channels, pipeline,
                   shutdown_tx, reader_handles, streaming, kpc, kidx, num_channels, attempt>>
    /\ UNCHANGED notKernel

\* lines 242-245: the device of the reader was dropped, filled_rx is
\* Disconnected and the reader task breaks.
ReaderDisconnected(r) ==
    /\ r \in Idx(readers)
    /\ readers[r].st = "running"
    /\ r \notin Owned
    /\ readers' = [readers EXCEPT ![r].st = "done"]
    /\ kret' = NoKReturn
    /\ UNCHANGED <<registered_devices, status, active_devices, device_channels, pipeline,
                   shutdown_tx, reader_handles, streaming, kpc, kidx, num_channels, attempt>>
    /\ UNCHANGED notKernel

MaxReaders == MaxStarts * 2

NextKernel ==
    \/ KStartCall
    \/ KStartDevice
    \/ KStartFinish
    \/ KShutdownCall
    \/ KShutdownJoin
    \/ KShutdownFinish
    \/ \E r \in 1..MaxReaders : ReaderShutdown(r)
    \/ \E r \in 1..MaxReaders : ReaderDisconnected(r)

SpecKernel == InitKernel /\ [][NextKernel]_allVars


\* ------------------------------------------------------------------------
\* hal/lifecycle.rs, hal/mock/audio.rs, hal/mock/trigger.rs and
\* hal/drivers/audio_device.rs: the devices.
\* ------------------------------------------------------------------------
\* hal/mod.rs 11-19: DeviceState (the message of Error left out).
DeviceStates == {"Unopened", "Opened", "Running", "Stopped", "Closed", "Error"}

\* What the ManagedSource operations leave alone unless they say otherwise.
AudioDeviceSame == UNCHANGED <<is_streaming, stream, streams_built>>

\* lifecycle.rs 21-27 and mock/audio.rs 50-69, mock/trigger.rs 47-64:
\* configure, refused unless Unopened; the source may reject the config.
MConfigure ==
    /\ mpc = "idle"
    /\ \E accepted_config \in BOOLEAN :
          dret' = DReturned("managed", "configure",
                            IF mstate = "Unopened" /\ istate = "Unopened" /\ accepted_config
                            THEN "ok" ELSE "err")
    /\ UNCHANGED <<mstate, istate, frame_counter, mpc>>
    /\ AudioDeviceSame
    /\ UNCHANGED notDev

\* lifecycle.rs 29-36 and mock/audio.rs 71-77: open.
MOpen ==
    /\ mpc = "idle"
    /\ IF mstate = "Unopened" /\ istate = "Unopened"
       THEN /\ istate' = "Opened"
            /\ mstate' = "Opened"
            /\ dret' = DReturned("managed", "open", "ok")
       ELSE /\ dret' = DReturned("managed", "open", "err")
            /\ UNCHANGED <<mstate, istate>>
    /\ UNCHANGED <<frame_counter, mpc>>
    /\ AudioDeviceSame
    /\ UNCHANGED notDev

\* lifecycle.rs 38-45 and mock/audio.rs 79-87: start.
MStart ==
    /\ mpc = "idle"
    /\ IF mstate \in {"Opened", "Stopped"} /\ istate \in {"Opened", "Stopped"}
       THEN /\ istate' = "Running"
            /\ frame_counter' = 0
            /\ mstate' = "Running"
            /\ dret' = DReturned("managed", "start", "ok")
       ELSE /\ dret' = DReturned("managed", "start", "err")
            /\ UNCHANGED <<mstate, istate, frame_counter>>
    /\ UNCHANGED mpc
    /\ AudioDeviceSame
    /\ UNCHANGED notDev

\* lifecycle.rs 47-50: run_streaming, refused unless Running.
MRunStreaming ==
    /\ mpc = "idle"
    /\ IF mstate = "Running"
       THEN /\ mpc' = "streaming"
            /\ dret' = NoDReturn
       ELSE /\ dret' = DReturned("managed", "run_streaming", "err")
            /\ UNCHANGED mpc
    /\ UNCHANGED <<mstate, istate, frame_counter>>
    /\ AudioDeviceSame
    /\ UNCHANGED notDev

\* lifecycle.rs 52-58 and mock/audio.rs 89-106: one turn of the loop whose
\* read_frame succeeds; a send to a closed channel ends the loop with Ok.
MStreamFrame ==
    /\ mpc = "streaming"
    /\ istate = "Running"
    /\ frame_counter < MaxFrames
    /\ frame_counter' = frame_counter + 1
    /\ \E sent \in BOOLEAN :
          IF sent THEN /\ dret' = NoDReturn
                       /\ UNCHANGED mpc
                  ELSE /\ dret' = DReturned("managed", "run_streaming", "ok")
                       /\ mpc' = "idle"
    /\ UNCHANGED <<mstate, istate>>
    /\ AudioDeviceSame
    /\ UNCHANGED notDev

\* lifecycle.rs 59-62 and mock/trigger.rs 83-97: read_frame fails (the
\* source is not running, or its manual trigger channel is closed).
MStreamFail ==
    /\ mpc = "streaming"
    /\ mstate' = "Error"
    /\ mpc' = "idle"
    /\ dret' = DReturned("managed", "run_streaming", "err")
    /\ UNCHANGED <<istate, frame_counter>>
    /\ AudioDeviceSame
    /\ UNCHANGED notDev

\* lifecycle.rs 69-76 and mock/audio.rs 108-114: stop.
MStop ==
    /\ mpc = "idle"
    /\ IF mstate = "Running"
       THEN /\ istate' = IF istate = "Running" THEN "Stopped" ELSE istate
            /\ mstate' = "Stopped"
       ELSE UNCHANGED <<mstate, istate>>
    /\ dret' = DReturned("managed", "stop", "ok")
    /\ UNCHANGED <<frame_counter, mpc>>
    /\ AudioDeviceSame
    /\ UNCHANGED notDev

\* lifecycle.rs 82-86: the second half of close; the inner close (mock/
\* audio.rs 116-124) stops a Running source and ends Closed from any state.
CloseRest ==
    /\ IF mstate # "Closed"
       THEN /\ istate' = "Closed"
            /\ mstate' = "Closed"
       ELSE UNCHANGED <<mstate, istate>>
    /\ mpc' = "idle"
    /\ dret' = DReturned("managed", "close", "ok")

\* lifecycle.rs 78-87: close; a Running device is stopped first (79-81).
MClose ==
    /\ mpc = "idle"
    /\ IF mstate = "Running"
       THEN /\ istate' = IF istate = "Running" THEN "Stopped" ELSE istate
            /\ mstate' = "Stopped"
            /\ mpc' = "closing"
            /\ dret' = NoDReturn
       ELSE CloseRest
    /\ UNCHANGED frame_counter
    /\ AudioDeviceSame
    /\ UNCHANGED notDev

\* lifecycle.rs 82-86, after the stop of a Running device.
MCloseStopped ==
    /\ mpc = "closing"
    /\ CloseRest
    /\ UNCHANGED frame_counter
    /\ AudioDeviceSame
    /\ UNCHANGED notDev

\* audio_device.rs 115-119 and 71-110: start builds and plays a new cpal
\* stream and stores it, whatever self.stream held; it fails when there is no
\* default input device or the stream cannot be built or played.
ADStart ==
    /\ \E built \in BOOLEAN :
          IF built
          THEN /\ streams_built < MaxStreams
               /\ streams_built' = streams_built + 1
               /\ stream' = streams_built + 1
               /\ is_streaming' = TRUE
               /\ dret' = DReturned("audio", "start", "ok")
          ELSE /\ dret' = DReturned("audio", "start", "err")
               /\ UNCHANGED <<is_streaming, stream, streams_built>>
    /\ UNCHANGED <<mstate, istate, frame_counter, mpc>>
    /\ UNCHANGED notDev

\* audio_device.rs 121-125: stop drops the stream.
ADStop ==
    /\ stream' = 0
    /\ is_streaming' = FALSE
    /\ dret' = DReturned("audio", "stop", "ok")
    /\ UNCHANGED <<mstate, istate, frame_counter, mpc, streams_built>>
    /\ UNCHANGED notDev

\* ManagedSource::new (lifecycle.rs 14-19) around a new mock source, and
\* AudioDevice::new (audio_device.rs 30-69).
InitDevice == DevicesIdle /\ PipelineUnused /\ SchedulerIdle /\ KernelIdle /\ RestIdle

NextDevice ==
    \/ MConfigure
    \/ MOpen
    \/ MStart
    \/ MRunStreaming
    \/ MStreamFrame
    \/ MStreamFail
    \/ MStop
    \/ MClose
    \/ MCloseStopped
    \/ ADStart
    \/ ADStop

SpecDevice == InitDevice /\ [][NextDevice]_allVars


\* ========================================================================
\* Hardware configuration (src/src-tauri/src/hardware_manager/config.rs)
\* ========================================================================

\* The registration ids and user names the frontend passes in.  Both are
\* fields of the RegisteredHardware the caller builds (the register_device
\* command hands it to the manager as received).
RegistrationIds == {"reg-001", "reg-002"}
UserNames == {"Main Mic", "Aux Mic"}
Hardware == [registration_id : RegistrationIds, user_name : UserNames]

\* line 83 and line 107: iter().any(..)
IterAny(list, P(_)) == \E i \in 1..Len(list) : P(list[i])

\* lines 98-100: iter().position(|d| d.registration_id == registration_id),
\* 0 for None.
Position(list, registration_id) ==
    IF IterAny(list, LAMBDA d : d.registration_id = registration_id)
    THEN CHOOSE i \in 1..Len(list) :
            /\ list[i].registration_id = registration_id
            /\ \A j \in 1..(i - 1) : list[j].registration_id # registration_id
    ELSE 0

\* line 123: retain(|d| d.registration_id != registration_id)
RECURSIVE Retain(_, _)
Retain(list, registration_id) ==
    IF list = << >> THEN << >>
    ELSE IF Head(list).registration_id # registration_id
         THEN <<Head(list)>> \o Retain(Tail(list), registration_id)
         ELSE Retain(Tail(list), registration_id)

\* lines 58-72: save writes the state to a temporary file and renames it
\* over the configuration file; either step can fail, and then the file is
\* as it was.
Save(op, list) ==
    \E written \in BOOLEAN :
        /\ hw_file' = (IF written THEN list ELSE hw_file)
        /\ hret' = HReturned(op, IF written THEN "ok" ELSE "save_failed")

\* lines 103-110: the test of update_device for a conflicting user name.
Conflict(list, pos, registration_id, updated) ==
    /\ list[pos].user_name # updated.user_name
    /\ IterAny(list, LAMBDA d : d.registration_id # registration_id
                            /\ d.user_name = updated.user_name)

\* lines 79-92
RegisterDevice(device) ==
    /\ IF IterAny(hw_state, LAMBDA d : d.user_name = device.user_name)
       THEN /\ hret' = HReturned("register_device", "already_exists")
            /\ UNCHANGED <<hw_state, hw_file>>
       ELSE /\ Len(hw_state) < MaxRegistered
            /\ hw_state' = Append(hw_state, device)
            /\ Save("register_device", hw_state')
    /\ UNCHANGED notHw

\* lines 94-117
UpdateDevice(registration_id, updated) ==
    /\ LET device_pos == Position(hw_state, registration_id) IN
       IF device_pos = 0
       THEN /\ hret' = HReturned("update_device", "not_found")
            /\ UNCHANGED <<hw_state, hw_file>>
       ELSE IF Conflict(hw_state, device_pos, registration_id, updated)
       THEN /\ hret' = HReturned("update_device", "already_exists")
            /\ UNCHANGED <<hw_state, hw_file>>
       ELSE /\ hw_state' = [hw_state EXCEPT ![device_pos] = updated]
            /\ Save("update_device", hw_state')
    /\ UNCHANGED notHw

\* lines 119-132
RemoveDevice(registration_id) ==
    /\ LET kept == Retain(hw_state, registration_id) IN
       IF Len(kept) = Len(hw_state)
       THEN /\ hret' = HReturned("remove_device", "not_found")
            /\ UNCHANGED <<hw_state, hw_file>>
       ELSE /\ hw_state' = kept
            /\ Save("remove_device", kept)
    /\ UNCHANGED notHw

\* lines 45-56: load reads the file the manager wrote (ensure_config_file
\* writes the empty default when there is none).
Load ==
    /\ hw_state' = hw_file
    /\ hret' = HReturned("load", "ok")
    /\ UNCHANGED hw_file
    /\ UNCHANGED notHw

\* lines 20-25: HardwareConfigManager::new, and the default file.
InitHardware ==
    /\ HardwareIdle
    /\ PipelineUnused /\ SchedulerIdle /\ KernelIdle /\ DevicesIdle /\ SourcesNew
    /\ NoHandle
    /\ NoJson
    /\ NoMapping
    /\ NoPacket
    /\ NoPool
    /\ NoBuffers
    /\ NoLocks
    /\ NoDeploy

NextHardware ==
    \/ \E device \in Hardware : RegisterDevice(device)
    \/ \E id \in RegistrationIds, updated \in Hardware : UpdateDevice(id, updated)
    \/ \E id \in RegistrationIds : RemoveDevice(id)
    \/ Load

SpecHardware == InitHardware /\ [][NextHardware]_allVars


\* ========================================================================
\* Source nodes (src/src/nodes/audio_source.rs, src/src/nodes/audio_input.rs)
\* ========================================================================

\* What filled_rx.try_recv() finds: a packet packet_to_frame converts, a
\* packet it rejects, or nothing.
Available == {"packet", "bad_packet", "none"}

\* self.sequence += 1 on a u64 that every constructor sets to 0: the 2^64
\* calls that would overflow it are out of reach of any run.
Incremented(n) == sequence[n] + 1

\* AudioSourceNode::process, audio_source.rs 148-225.  A device packet is
\* converted under the sequence held (line 168) and the sequence is
\* incremented afterwards (line 175); a failed conversion returns the error
\* at line 172 before the increment; without a packet the sequence is
\* incremented first and the frame carries the new value (lines 221-222).
AudioSourceProcess(avail) ==
    LET n == "AudioSourceNode" IN
    /\ calls[n] < MaxCalls
    /\ calls' = [calls EXCEPT ![n] = @ + 1]
    /\ CASE avail = "packet" ->
              /\ sequence_ids' = [sequence_ids EXCEPT ![n] = Append(@, sequence[n])]
              /\ sequence' = [sequence EXCEPT ![n] = Incremented(n)]
         [] avail = "bad_packet" ->
              UNCHANGED <<sequence, sequence_ids>>
         [] avail = "none" ->
              /\ sequence' = [sequence EXCEPT ![n] = Incremented(n)]
              /\ sequence_ids' = [sequence_ids EXCEPT ![n] = Append(@, Incremented(n))]
    /\ UNCHANGED notSrc

\* AudioInputNode::process, audio_input.rs 119-182.  The sequence is
\* incremented before the conversion (line 138) and before the empty frame
\* (lines 173-174); a failed conversion returns the error at line 145.
AudioInputProcess(avail) ==
    LET n == "AudioInputNode" IN
    /\ calls[n] < MaxCalls
    /\ calls' = [calls EXCEPT ![n] = @ + 1]
    /\ sequence' = [sequence EXCEPT ![n] = Incremented(n)]
    /\ CASE avail = "packet" ->
              sequence_ids' = [sequence_ids EXCEPT ![n] = Append(@, Incremented(n))]
         [] avail = "bad_packet" ->
              UNCHANGED sequence_ids
         [] avail = "none" ->
              sequence_ids' = [sequence_ids EXCEPT ![n] = Append(@, Incremented(n))]
    /\ UNCHANGED notSrc

InitSources ==
    /\ SourcesNew
    /\ PipelineUnused /\ SchedulerIdle /\ KernelIdle /\ DevicesIdle /\ HardwareIdle
    /\ NoHandle
    /\ NoJson
    /\ NoMapping
    /\ NoPacket
    /\ NoPool
    /\ NoBuffers
    /\ NoLocks
    /\ NoDeploy

NextSources ==
    \/ \E avail \in Available : AudioSourceProcess(avail)
    \/ \E avail \in Available : AudioInputProcess(avail)

SpecSources == InitSources /\ [][NextSources]_allVars


\* ========================================================================
\* The pipeline behind the command surface (src/src/engine/
\* async_pipeline.rs 93-96, src/src-tauri/src/commands/pipeline.rs)
\* ========================================================================

\* async_pipeline.rs 93-96: set_state assigns the state it is given.
SetState(new_state) ==
    /\ NoCaller
    /\ state' = new_state
    /\ ret' = Returned("set_state", new_state, "ok")
    /\ UNCHANGED <<nodes, connections, channel_capacity, source_node_id, channels, handles,
                   configured, budget>>
    /\ UNCHANGED <<call, accepted, spawned, sunk>>
    /\ UNCHANGED <<nodeVars, fanVars>>
    /\ UNCHANGED otherVars

\* commands/pipeline.rs 266-278: control_pipeline(Start) runs the pipeline
\* through KernelManager::execute_pipeline_sync (not among the sources:
\* taken to be the pipeline's start) and, when that returned Ok, stores
\* Running in the handle.
ControlStart ==
    /\ ret.op = "start" /\ ret.result = "ok"
    /\ handle_state' = St("Running")
    /\ UNCHANGED <<vars, notCmd>>

\* commands/pipeline.rs 279-297: control_pipeline(Stop) awaits the
\* pipeline's stop and, when that returned Ok, stores Completed in the
\* handle.
ControlStop ==
    /\ ret.op = "stop" /\ ret.result = "ok"
    /\ handle_state' = St("Completed")
    /\ UNCHANGED <<vars, notCmd>>

\* deploy_graph, commands/pipeline.rs 80 and 207-216: a pipeline from_json
\* built and a handle in state Idle.
SurfaceConfigs == { [nodes |-> {"A", "B"}, connections |-> << <<"A", "B">> >>, cap |-> 1] }
InitSurface ==
    /\ FromJson(SurfaceConfigs) /\ budget = SurfaceFrames /\ NothingRunning
    /\ handle_state = St("Idle")
    /\ SchedulerIdle /\ KernelIdle /\ DevicesIdle /\ HardwareIdle /\ SourcesNew
    /\ NoJson
    /\ NoMapping
    /\ NoPacket
    /\ NoPool
    /\ NoBuffers
    /\ NoLocks
    /\ NoDeploy

NextSurface ==
    \/ Next
    \/ \E s \in PipelineStates : SetState(s)
    \/ ControlStart
    \/ ControlStop

SpecSurface == InitSurface /\ [][NextSurface]_allVars

\* The deployed pipeline reached through the commands alone: control_pipeline
\* (Start and Stop, each ending with its write to the handle) and
\* trigger_pipeline (commands/pipeline.rs 246-344), with the tasks running.
NextCommands ==
    \/ StartSpawn
    \/ StartRunning
    \/ ControlStart
    \/ StopCall
    \/ StopJoin
    \/ StopReturn
    \/ ControlStop
    \/ TriggerCall
    \/ TriggerSend
    \/ TriggerFail
    \/ TaskStep

SpecCommands == InitSurface /\ [][NextCommands]_allVars


\* ========================================================================
\* from_json (src/src/engine/async_pipeline.rs 25-86)
\* ========================================================================

\* The node types of the match at lines 44-49, and a type it does not know.
KnownTypes == {"SineGenerator", "Gain", "Print"}

\* The configurations handed to from_json.  Null stands for a key that is
\* absent or not a string (as_str() is None); a cap of -1 for a
\* channel_capacity that is absent or not a u64.
JsonNode == [id : {"A", "B", Null}, type : {"Gain", "Oscillator", Null}]
JsonConnection == [from : {"A", Null}, to : {"B", Null}]
SeqsUpTo(S, n) == UNION {[1..k -> S] : k \in 0..n}
JsonConfigs ==
    [nodes : SeqsUpTo(JsonNode, MaxJsonNodes),
     connections : SeqsUpTo(JsonConnection, 1),
     cap : {-1, 1}]

\* Mutant: the match of lines 44-49 with a default arm that builds a node.
NodeErrorAnyType(node) ==
    IF node.id = Null THEN "missing_id"
    ELSE IF node.type = Null THEN "missing_type"
    ELSE "ok"

\* lines 37-51: the error the loop body returns for one node ("ok" for
\* none; on_create of the three node types always returns Ok).
NodeError(node) ==
    IF node.id = Null THEN "missing_id"
    ELSE IF node.type = Null THEN "missing_type"
    ELSE IF node.type \notin KnownTypes THEN "unknown_type"
    ELSE "ok"

\* lines 59-66: the error the loop body returns for one connection.
ConnectionError(conn) ==
    IF conn.from = Null THEN "missing_from"
    ELSE IF conn.to = Null THEN "missing_to"
    ELSE "ok"

\* The `?` of a loop: the error of the first element that has one.
FirstError(list, Err(_)) ==
    LET failing == {i \in Idx(list) : Err(list[i]) # "ok"} IN
    IF failing = {} THEN "ok"
    ELSE Err(list[CHOOSE i \in failing : \A j \in failing : i <= j])

\* lines 25-86: the result of from_json, "ok" or the error returned.
from_json(config) ==
    IF FirstError(config.nodes, NodeError) # "ok"
    THEN FirstError(config.nodes, NodeError)
    ELSE FirstError(config.connections, ConnectionError)

\* No pipeline constructed.
NoPipeline ==
    /\ nodes = {}
    /\ configured = {}
    /\ connections = << >>
    /\ channel_capacity = 0
    /\ source_node_id = None
    /\ channels = {}
    /\ handles = {}
    /\ state = NoState
    /\ policy = [n \in NodeIds |-> "Propagate"]
    /\ budget = 0
    /\ NothingRunning

\* lines 25-86: from_json called on json.  On Ok the pipeline holds the
\* nodes by id (a HashMap), the connections in order, the capacity (100
\* by default), as source some node without an incoming connection, and
\* state Idle.
FromJsonCall ==
    /\ state = NoState
    /\ ret = NoReturn
    /\ IF from_json(json) = "ok"
       THEN /\ nodes' = {json.nodes[i].id : i \in Idx(json.nodes)}
            /\ configured' = nodes'
            /\ connections' = [i \in Idx(json.connections) |->
                                  <<json.connections[i].from, json.connections[i].to>>]
            /\ channel_capacity' = (IF json.cap < 0 THEN 100 ELSE json.cap)
            /\ source_node_id' \in
                  IF SourceCandidates(nodes', connections') = {}
                  THEN {None} ELSE SourceCandidates(nodes', connections')
            /\ state' = St("Idle")
            /\ ret' = Returned("from_json", St("Idle"), "ok")
       ELSE /\ ret' = Returned("from_json", NoState, from_json(json))
            /\ UNCHANGED <<nodes, configured, connections, channel_capacity,
                           source_node_id, state>>
    /\ UNCHANGED <<channels, handles, budget>>
    /\ UNCHANGED <<nodeVars, fanVars, callVars>>
    /\ UNCHANGED notJson

InitJson ==
    /\ json \in JsonConfigs
    /\ NoPipeline
    /\ SchedulerIdle /\ KernelIdle /\ DevicesIdle /\ HardwareIdle /\ SourcesNew
    /\ NoHandle
    /\ NoMapping
    /\ NoPacket
    /\ NoPool
    /\ NoBuffers
    /\ NoLocks
    /\ NoDeploy

NextJson == FromJsonCall

SpecJson == InitJson /\ [][NextJson]_allVars


\* ========================================================================
\* ChannelMapper::apply (src/src/hal/channel_mapper.rs 8-68)
\* ========================================================================

\* The rules of a mapping (types.rs 70-75): Direct and Duplicate carry one
\* index, Reorder and Merge a list of indices.
ChannelIndex == 0..2
IndexLists == SeqsUpTo(ChannelIndex, 2)
ChannelRoute ==
    [kind : {"Direct", "Duplicate"}, channels : [1..1 -> ChannelIndex]]
    \cup [kind : {"Reorder", "Merge"}, channels : IndexLists]

\* The mappings and the inputs apply is given: an input of one or two
\* samples, the sample of channel i being 10 * (i + 1).
ChannelMappings ==
    [physical_channels : 1..2, virtual_channels : 1..2,
     routing : SeqsUpTo(ChannelRoute, MaxRules)]
PhysicalInputs == {[i \in 1..n |-> 10 * i] : n \in 1..2}

\* lines 63-68
validate_channel(ch, available) == IF ch >= available THEN "OutOfRange" ELSE "ok"

\* A sample as a fraction (Merge divides a sum by a count), and physical[ch].
Sample(num, den) == [num |-> num, den |-> den]
At(input, ch) == input[ch + 1]
RECURSIVE SumOf(_, _)
SumOf(input, indices) ==
    IF indices = << >> THEN 0
    ELSE At(input, Head(indices)) + SumOf(input, Tail(indices))

\* What one pass of the loop body (lines 20-47) does with a rule: a sample
\* pushed, an error returned by `?` or bail!, or the panic of the unwrap()
\* at line 37 on the first index that validate_channel refuses.
RouteOutcome(route, input) ==
    LET indices == route.channels
        refused == {i \in Idx(indices) :
                       validate_channel(indices[i], Len(input)) # "ok"}
    IN
    CASE route.kind \in {"Direct", "Duplicate"} ->
            IF refused # {} THEN [is |-> "OutOfRange", sample |-> Sample(0, 1)]
            ELSE [is |-> "ok", sample |-> Sample(At(input, indices[1]), 1)]
      [] route.kind = "Reorder" ->
            IF Len(indices) # 1 THEN [is |-> "BadReorderArity", sample |-> Sample(0, 1)]
            ELSE IF refused # {} THEN [is |-> "OutOfRange", sample |-> Sample(0, 1)]
            ELSE [is |-> "ok", sample |-> Sample(At(input, indices[1]), 1)]
      [] route.kind = "Merge" ->
            IF refused # {} THEN [is |-> "panic", sample |-> Sample(0, 1)]
            ELSE [is |-> "ok", sample |-> Sample(SumOf(input, indices), Len(indices))]

\* lines 8-61: apply.
apply(m, input) ==
    LET outcome == [i \in Idx(m.routing) |-> RouteOutcome(m.routing[i], input)]
        stopped == {i \in Idx(m.routing) : outcome[i].is # "ok"}
    IN
    IF Len(input) # m.physical_channels
    THEN [result |-> "LengthMismatch", samples |-> << >>]
    ELSE IF stopped # {}
    THEN [result |-> outcome[CHOOSE i \in stopped : \A j \in stopped : i <= j].is,
          samples |-> << >>]
    ELSE IF Len(m.routing) # m.virtual_channels
    THEN [result |-> "ArityMismatch", samples |-> << >>]
    ELSE [result |-> "ok", samples |-> [i \in Idx(m.routing) |-> outcome[i].sample]]

ApplyCall ==
    /\ applied = NotApplied
    /\ applied' = apply(mapping, physical)
    /\ UNCHANGED <<mapping, physical>>
    /\ UNCHANGED notMap

InitMapper ==
    /\ mapping \in ChannelMappings
    /\ physical \in PhysicalInputs
    /\ applied = NotApplied
    /\ PipelineUnused /\ SchedulerIdle /\ KernelIdle /\ DevicesIdle
    /\ HardwareIdle /\ SourcesNew /\ NoHandle /\ NoJson
    /\ NoPacket
    /\ NoPool
    /\ NoBuffers
    /\ NoLocks
    /\ NoDeploy

NextMapper == ApplyCall

SpecMapper == InitMapper /\ [][NextMapper]_allVars


\* ========================================================================
\* Format converter (src/src/hal/format_converter.rs 8-172)
\* ========================================================================

\* The integer sample formats (types.rs 35-42, 123-131) with, for each, a
\* few samples: both ends of the range and values between.  I24 data is
\* bytes, three per sample, little-endian.
IntegerFormats == {"I16", "I24", "I32", "U8"}
Samples(format) ==
    CASE format = "I16" -> {-32768, -1, 12345, 32767}
      [] format = "I24" -> {-8388608, -1, 4194305, 8388607}
      [] format = "I32" -> {-2147483647 - 1, -1, 1073741825, 2147483647}
      [] format = "U8"  -> {0, 127, 128, 255}

\* i24_value & 0xFF, (i24_value >> 8) & 0xFF, (i24_value >> 16) & 0xFF
\* (lines 109-111): the shifts are arithmetic.
Bytes24(v) == <<v % 256, (v \div 256) % 256, (v \div 65536) % 256>>

\* lines 37-41: b2 as i8 sign-extends the high byte; the or of the three
\* shifted parts is their sum.
Sample24(b0, b1, b2) == (IF b2 >= 128 THEN b2 - 256 ELSE b2) * 65536 + b1 * 256 + b0

\* The data of a packet holding the given samples.
DataOf(format, samples) ==
    IF format = "I24"
    THEN [i \in 1..(3 * Len(samples)) |-> Bytes24(samples[((i - 1) \div 3) + 1])[((i - 1) % 3) + 1]]
    ELSE samples

\* Packets of one or two channels whose sample count is a multiple of the
\* channel count.
Packets ==
    UNION {{[format |-> f, data |-> DataOf(f, s), num_channels |-> nc] :
               s \in UNION {[1..c -> Samples(f)] : c \in {k \in 0..MaxSamples : k % nc = 0}}} :
           f \in IntegerFormats, nc \in 1..2}

\* An f64 that is an integer over a power of two: num / 2^exp.  Every value
\* the integer formats convert to is one, exactly (53 bits of mantissa).
F64(num, exp) == [num |-> num, exp |-> exp]

\* The exponent of the divisor of each format: 32768, 8388608, 2147483648, 128.
Exponent(format) ==
    CASE format = "I16" -> 15 [] format = "I24" -> 23 [] format = "I32" -> 31 [] format = "U8" -> 7

\* x * 2^e converted by `as iN`: truncated toward zero.
TruncDiv(a, b) == IF a >= 0 THEN a \div b ELSE -((-a) \div b)
Scaled(x, e) == IF e >= x.exp THEN x.num * 2^(e - x.exp) ELSE TruncDiv(x.num, 2^(x.exp - e))
clamp(x, lo, hi) == IF x < lo THEN lo ELSE IF x > hi THEN hi ELSE x

\* Mutant: the samples of a channel taken from a planar packet.
PacketIndexPlanar(frame_idx, ch, nc, per_channel) == ch * per_channel + frame_idx

\* line 31: let index = frame * packet.num_channels + ch
PacketIndex(frame_idx, ch, nc, per_channel) == frame_idx * nc + ch

\* lines 12-20: total_samples
TotalSamples(p) == IF p.format = "I24" THEN Len(p.data) \div 3 ELSE Len(p.data)

\* lines 33-49: the value at an index of the data, as an f64.
ValueAt(p, index) ==
    CASE p.format = "I16" -> F64(p.data[index + 1], Exponent("I16"))
      [] p.format = "I24" ->
            F64(Sample24(p.data[3 * index + 1], p.data[3 * index + 2], p.data[3 * index + 3]),
                Exponent("I24"))
      [] p.format = "I32" -> F64(p.data[index + 1], Exponent("I32"))
      [] p.format = "U8"  -> F64(p.data[index + 1] - 128, Exponent("U8"))

\* lines 8-66: packet_to_frame.  The payload maps channel ch (the key
\* "ch{ch}") to its samples; the division at line 22 panics for a packet
\* of no channels.
packet_to_frame(p) ==
    IF p.num_channels = 0 THEN [result |-> "panic"]
    ELSE LET per_channel == TotalSamples(p) \div p.num_channels IN
         [result |-> "ok",
          payload |-> [ch \in 0..(p.num_channels - 1) |->
                         [k \in 1..per_channel |->
                            ValueAt(p, PacketIndex(k - 1, ch, p.num_channels, per_channel))]]]

\* lines 85-164: one sample of the frame in the native format.
Native(format, x) ==
    CASE format = "I16" -> clamp(Scaled(x, Exponent("I16")), -32768, 32767)
      [] format = "I24" -> clamp(Scaled(x, Exponent("I24")), -8388608, 8388607)
      [] format = "I32" -> clamp(Scaled(x, Exponent("I32")), -2147483647 - 1, 2147483647)
      [] format = "U8"  -> clamp(Scaled(x, Exponent("U8")) + 128, 0, 255)

\* lines 69-172: frame_to_packet, the length of the channels read from the
\* channel `first` (payload.values().next()).  The samples are pushed
\* frame by frame, channel by channel.
frame_to_packet(payload, format, first) ==
    LET nc == Cardinality(DOMAIN payload)
        per_channel == Len(payload[first])
        samples == [i \in 1..(per_channel * nc) |->
                       Native(format, payload[(i - 1) % nc][((i - 1) \div nc) + 1])]
    IN [result |-> "ok", format |-> format, data |-> DataOf(format, samples),
        num_channels |-> nc]

PacketToFrame ==
    /\ converted = NotConverted
    /\ converted' = packet_to_frame(packet)
    /\ UNCHANGED <<packet, reconstructed>>
    /\ UNCHANGED notConv

\* frame_to_packet on the frame packet_to_frame returned; a frame without
\* channels is refused (lines 72-74).
FrameToPacket ==
    /\ converted.result = "ok"
    /\ reconstructed = NotConverted
    /\ IF DOMAIN converted.payload = {}
       THEN reconstructed' = [result |-> "err"]
       ELSE \E first \in DOMAIN converted.payload :
               reconstructed' = frame_to_packet(converted.payload, packet.format, first)
    /\ UNCHANGED <<packet, converted>>
    /\ UNCHANGED notConv

InitConverter ==
    /\ packet \in Packets
    /\ converted = NotConverted
    /\ reconstructed = NotConverted
    /\ PipelineUnused /\ SchedulerIdle /\ KernelIdle /\ DevicesIdle
    /\ HardwareIdle /\ SourcesNew /\ NoHandle /\ NoJson /\ NoMapping
    /\ NoPool
    /\ NoBuffers
    /\ NoLocks
    /\ NoDeploy

NextConverter ==
    \/ PacketToFrame
    \/ FrameToPacket

SpecConverter == InitConverter /\ [][NextConverter]_allVars


\* ========================================================================
\* Pipeline pool (src/src/engine/pipeline_pool.rs)
\* ========================================================================

\* Configurations PipelinePool::new accepts (from_json returns Ok for each):
\* a chain, a cycle, and a connection to a node that is not declared.
PoolConfigs ==
    { [nodes |-> {"A", "B"}, connections |-> << <<"A", "B">> >>],
      [nodes |-> {"A", "B"}, connections |-> << <<"A", "B">>, <<"B", "A">> >>],
      [nodes |-> {"A"}, connections |-> << <<"A", "B">> >>] }

PoolTasks == 1..MaxExecutes
\* A task not spawned, and the positions of a spawned one.
NotSpawned == [pc |-> "none", source |-> None, tasks |-> {}, channels |-> FALSE]
Ended == {"finished", "failed", "panicked"}
Holding(t) == instance[t].pc \in {"from_json", "start", "trigger", "sleep", "stop", "join"}

\* lines 27-50: execute spawns the task and returns its handle.
Execute(t) ==
    /\ instance[t].pc = "none"
    /\ IF t = 1 THEN TRUE ELSE instance[t - 1].pc # "none"
    /\ instance' = [instance EXCEPT ![t].pc = "acquire"]
    /\ UNCHANGED <<pool_config, pool_max_concurrent, semaphore>>
    /\ UNCHANGED notPool

\* line 33: semaphore.acquire().await
Acquired == semaphore - 1

PoolAcquire(t) ==
    /\ instance[t].pc = "acquire"
    /\ Acquired >= 0
    /\ semaphore' = Acquired
    /\ instance' = [instance EXCEPT ![t].pc = "from_json"]
    /\ UNCHANGED <<pool_config, pool_max_concurrent>>
    /\ UNCHANGED notPool

\* line 36: from_json on the configuration new validated; the source is a
\* node without an incoming connection (async_pipeline.rs 71-74).
PoolBuild(t) ==
    /\ instance[t].pc = "from_json"
    /\ \E s \in IF SourceCandidates(pool_config.nodes, pool_config.connections) = {}
                 THEN {None}
                 ELSE SourceCandidates(pool_config.nodes, pool_config.connections) :
          instance' = [instance EXCEPT ![t].pc = "start", ![t].source = s]
    /\ UNCHANGED <<pool_config, pool_max_concurrent, semaphore>>
    /\ UNCHANGED notPool

\* line 37: start (async_pipeline.rs 111-188).  The lookup of a
\* connection's target among the declared nodes is unwrapped (line 137):
\* the task panics, and the unwinding drops the permit.  Otherwise one task
\* per node runs and the pipeline holds the sender of the source's inbox.
PoolStart(t) ==
    /\ instance[t].pc = "start"
    /\ IF \E i \in Idx(pool_config.connections) :
             pool_config.connections[i][2] \notin pool_config.nodes
       THEN /\ instance' = [instance EXCEPT ![t].pc = "panicked"]
            /\ semaphore' = semaphore + 1
       ELSE /\ instance' = [instance EXCEPT ![t].pc = "trigger",
                                             ![t].tasks = pool_config.nodes,
                                             ![t].channels = (instance[t].source # None)]
            /\ UNCHANGED semaphore
    /\ UNCHANGED <<pool_config, pool_max_concurrent>>
    /\ UNCHANGED notPool

\* line 38: trigger (async_pipeline.rs 190-197) sends one frame to the
\* source's inbox, or returns Ok at once without a source; the send fails
\* when the source's task is gone, and `?` then drops pipeline and permit.
PoolTrigger(t) ==
    /\ instance[t].pc = "trigger"
    /\ IF instance[t].channels /\ instance[t].source \notin instance[t].tasks
       THEN /\ instance' = [instance EXCEPT ![t].pc = "failed", ![t].channels = FALSE]
            /\ semaphore' = semaphore + 1
       ELSE /\ instance' = [instance EXCEPT ![t].pc = "sleep"]
            /\ UNCHANGED semaphore
    /\ UNCHANGED <<pool_config, pool_max_concurrent>>
    /\ UNCHANGED notPool

\* line 41: the sleep of 50 ms is over.
PoolSleep(t) ==
    /\ instance[t].pc = "sleep"
    /\ instance' = [instance EXCEPT ![t].pc = "stop"]
    /\ UNCHANGED <<pool_config, pool_max_concurrent, semaphore>>
    /\ UNCHANGED notPool

\* line 43, async_pipeline.rs 199-211: stop drops the saved senders ...
PoolStop(t) ==
    /\ instance[t].pc = "stop"
    /\ instance' = [instance EXCEPT ![t].pc = "join", ![t].channels = FALSE]
    /\ UNCHANGED <<pool_config, pool_max_concurrent, semaphore>>
    /\ UNCHANGED notPool

\* A sender of the inbox of node n of instance t is alive: the one the
\* pipeline saved for its source, or the clone held by the task of a node
\* connected to n (async_pipeline.rs 125-138).
InboxOpen(t, n) ==
    \/ instance[t].channels /\ instance[t].source = n
    \/ \E i \in Idx(pool_config.connections) :
          /\ pool_config.connections[i][2] = n
          /\ pool_config.connections[i][1] \in instance[t].tasks

\* async_pipeline.rs 155-172 and resilient_node.rs 30-60: the task of a
\* node returns once recv finds the inbox closed (the frames queued are
\* processed before); SineGenerator, Gain and Print never fail.
PoolNodeEnd(t, n) ==
    /\ n \in instance[t].tasks
    /\ ~InboxOpen(t, n)
    /\ instance' = [instance EXCEPT ![t].tasks = @ \ {n}]
    /\ UNCHANGED <<pool_config, pool_max_concurrent, semaphore>>
    /\ UNCHANGED notPool

\* ... and awaits every handle (async_pipeline.rs 213-219); the task then
\* returns Ok and drops the permit (lines 43-46).
PoolJoin(t) ==
    /\ instance[t].pc = "join"
    /\ instance[t].tasks = {}
    /\ instance' = [instance EXCEPT ![t].pc = "finished"]
    /\ semaphore' = semaphore + 1
    /\ UNCHANGED <<pool_config, pool_max_concurrent>>
    /\ UNCHANGED notPool

\* lines 16-25: PipelinePool::new with one or two permits.
InitPool ==
    /\ pool_config \in PoolConfigs
    /\ pool_max_concurrent \in 1..2
    /\ semaphore = pool_max_concurrent
    /\ instance = [t \in PoolTasks |-> NotSpawned]
    /\ PipelineUnused /\ SchedulerIdle /\ KernelIdle /\ DevicesIdle
    /\ HardwareIdle /\ SourcesNew /\ NoHandle /\ NoJson /\ NoMapping /\ NoPacket
    /\ NoBuffers
    /\ NoLocks
    /\ NoDeploy

\* The steps the runtime takes by itself.
PoolRun ==
    \/ \E t \in PoolTasks : PoolAcquire(t)
    \/ \E t \in PoolTasks : PoolBuild(t)
    \/ \E t \in PoolTasks : PoolStart(t)
    \/ \E t \in PoolTasks : PoolTrigger(t)
    \/ \E t \in PoolTasks : PoolSleep(t)
    \/ \E t \in PoolTasks : PoolStop(t)
    \/ \E t \in PoolTasks, n \in NodeIds : PoolNodeEnd(t, n)
    \/ \E t \in PoolTasks : PoolJoin(t)

NextPool ==
    \/ \E t \in PoolTasks : Execute(t)
    \/ PoolRun

\* The pool with every spawned task polled.
FairPool == InitPool /\ [][NextPool]_allVars /\ WF_allVars(PoolRun)


\* ========================================================================
\* Buffer exchange of an AudioDevice with the kernel's reader task
\* (src/src/hal/drivers/audio_device.rs, src/src/engine/kernel.rs 203-253)
\* ========================================================================

\* audio_device.rs 37-38: bounded(2) for both channels.
QueueCapacity == 2
\* audio_device.rs 41: `for _ in 0..2`.
PreAllocated == 1..2
\* The formats a device is built with: the one the kernel asks for (kernel.rs
\* 103) and one whose buffers the callback does not write (audio_device.rs 92).
DeviceFormats == {"F32", "I16"}

\* Mutant: a channel that refuses every buffer.
try_send_full(queue, buffer) == [queue |-> queue, ok |-> FALSE]

\* crossbeam try_send on a bounded channel: refused when the queue is full.
try_send(queue, buffer) ==
    IF Len(queue) < QueueCapacity
    THEN [queue |-> Append(queue, buffer), ok |-> TRUE]
    ELSE [queue |-> queue, ok |-> FALSE]

\* types.rs 134-152: PacketBuffer::new, zeroed.
NewBuffer(i) ==
    [id |-> i, kind |-> audio.format, data |-> 0, num_channels |-> audio.num_channels]

\* audio_device.rs 91-96: the samples are copied when the buffer is F32.
Fill(buffer, n) ==
    IF buffer.kind = "F32"
    THEN [buffer EXCEPT !.data = n, !.num_channels = audio.num_channels]
    ELSE buffer

\* audio_device.rs 89-96: the data callback of the stream the device holds
\* takes an empty buffer and fills it; without one it returns at once.
CallbackTake(s) ==
    /\ stream = s
    /\ callback[s] = NoBuffer
    /\ captured < MaxPackets
    /\ empty # << >>
    /\ callback' = [callback EXCEPT ![s] = Fill(Head(empty), captured + 1)]
    /\ empty' = Tail(empty)
    /\ captured' = captured + 1
    /\ UNCHANGED <<audio, filled, reader, shutdown_signal, lost>>
    /\ UNCHANGED notBuf

\* audio_device.rs 99: `let _ = filled_tx.try_send(buffer)`: a refused
\* buffer is dropped with the error.
CallbackSend(s) ==
    /\ callback[s] # NoBuffer
    /\ filled' = try_send(filled, callback[s]).queue
    /\ lost' = IF try_send(filled, callback[s]).ok THEN lost ELSE lost \cup {callback[s].id}
    /\ callback' = [callback EXCEPT ![s] = NoBuffer]
    /\ UNCHANGED <<audio, empty, reader, shutdown_signal, captured>>
    /\ UNCHANGED notBuf

\* kernel.rs 171-174: shutdown broadcasts the signal.
ShutdownSignal ==
    /\ ~shutdown_signal
    /\ shutdown_signal' = TRUE
    /\ UNCHANGED <<audio, empty, filled, callback, reader, captured, lost>>
    /\ UNCHANGED notBuf

\* kernel.rs 213-216: the reader leaves its loop once it finds the signal.
ReaderCheck ==
    /\ reader.pc = "check"
    /\ reader' = [reader EXCEPT !.pc = IF shutdown_signal THEN "stopped" ELSE "take"]
    /\ UNCHANGED <<audio, empty, filled, callback, shutdown_signal, captured, lost>>
    /\ UNCHANGED notBuf

\* kernel.rs 219-220 and 238-241: filled_rx.try_recv(); nothing there, the
\* task yields and starts over.
ReaderTake ==
    /\ reader.pc = "take"
    /\ IF filled = << >>
       THEN /\ reader' = [reader EXCEPT !.pc = "check"]
            /\ UNCHANGED filled
       ELSE /\ reader' = [reader EXCEPT !.pc = "convert", !.packet = Head(filled)]
            /\ filled' = Tail(filled)
    /\ UNCHANGED <<audio, empty, callback, shutdown_signal, captured, lost>>
    /\ UNCHANGED notBuf

\* format_converter.rs 8-22: packet_to_frame fails on Bytes, divides by the
\* number of channels, and converts every other packet.
ConversionOf(buffer) ==
    IF buffer.kind = "Bytes" THEN "err"
    ELSE IF buffer.num_channels = 0 THEN "panic"
    ELSE "ok"

\* kernel.rs 221-232: the frame is discarded; sequence_id counts the
\* packets converted.  A panic ends the task and drops the packet.
ReaderConvert ==
    /\ reader.pc = "convert"
    /\ reader' =
          CASE ConversionOf(reader.packet) = "ok" ->
                   [reader EXCEPT !.pc = "return", !.sequence_id = @ + 1]
            [] ConversionOf(reader.packet) = "err" -> [reader EXCEPT !.pc = "return"]
            [] OTHER -> [reader EXCEPT !.pc = "panicked", !.packet = NoBuffer]
    /\ lost' = IF ConversionOf(reader.packet) = "panic"
               THEN lost \cup {reader.packet.id} ELSE lost
    /\ UNCHANGED <<audio, empty, filled, callback, shutdown_signal, captured>>
    /\ UNCHANGED notBuf

\* kernel.rs 234-237: empty_tx.try_send(packet); a refused packet is
\* dropped after the message is printed.
ReaderReturn ==
    /\ reader.pc = "return"
    /\ empty' = try_send(empty, reader.packet).queue
    /\ lost' = IF try_send(empty, reader.packet).ok THEN lost ELSE lost \cup {reader.packet.id}
    /\ reader' = [reader EXCEPT !.pc = "check", !.packet = NoBuffer]
    /\ UNCHANGED <<audio, filled, callback, shutdown_signal, captured>>
    /\ UNCHANGED notBuf

\* AudioDevice::new (audio_device.rs 30-69) for a device of one or two
\* channels, with the reader task of kernel.rs 203-253 on its channels.
InitBuffers ==
    /\ audio \in [format : DeviceFormats, num_channels : 1..2]
    /\ empty = [i \in PreAllocated |-> NewBuffer(i)]
    /\ filled = << >>
    /\ callback = [s \in 1..MaxStreams |-> NoBuffer]
    /\ reader = [pc |-> "check", packet |-> NoBuffer, sequence_id |-> 0]
    /\ shutdown_signal = FALSE
    /\ captured = 0
    /\ lost = {}
    /\ PipelineUnused /\ SchedulerIdle /\ KernelIdle /\ DevicesIdle
    /\ HardwareIdle /\ SourcesNew /\ NoHandle /\ NoJson /\ NoMapping /\ NoPacket /\ NoPool
    /\ NoLocks
    /\ NoDeploy

NextBuffers ==
    \/ ADStart
    \/ ADStop
    \/ \E s \in 1..MaxStreams : CallbackTake(s)
    \/ \E s \in 1..MaxStreams : CallbackSend(s)
    \/ ShutdownSignal
    \/ ReaderCheck
    \/ ReaderTake
    \/ ReaderConvert
    \/ ReaderReturn

SpecBuffers == InitBuffers /\ [][NextBuffers]_allVars


\* ========================================================================
\* The mutexes: control_pipeline and trigger_pipeline (src/src-tauri/src/
\* commands/pipeline.rs 246-344) on the guard of PipelineHandle.pipeline,
\* DeviceManager::start_device / stop_device (src/src/hal/device_manager.rs
\* 100-119) on the guard of active_devices
\* ========================================================================

ProfileIds == {"mic"}

\* The pipeline operation a command awaits under the guard has just
\* returned: the command's next step is to drop the guard.
Returning ==
    /\ pipeline_mutex # "free"
    /\ NoCaller
    /\ ret.op \in {"stop", "trigger"}

\* commands/pipeline.rs 281 and 338: `pipeline_arc.lock().unwrap()`; the
\* command waits while another command holds the guard.
LockPipeline(command) ==
    /\ pipeline_mutex = "free"
    /\ NoCaller
    /\ pipeline_mutex' = command
    /\ ret' = NoReturn
    /\ UNCHANGED <<pipeVars, nodeVars, fanVars, callVars>>
    /\ UNCHANGED <<active_mutex, manager_devices, dm>>
    /\ UNCHANGED <<devVars, cmdVars, notLock>>

\* commands/pipeline.rs 286-288: `pipeline_guard.stop().await` inside
\* block_on, with the guard alive.
GuardedStop ==
    /\ pipeline_mutex = "control_pipeline"
    /\ ~Returning
    /\ StopCall \/ StopJoin \/ StopReturn

\* commands/pipeline.rs 337-340: `pipeline.trigger(trigger_frame).await`
\* inside block_on, with the guard alive.
GuardedTrigger ==
    /\ pipeline_mutex = "trigger_pipeline"
    /\ ~Returning
    /\ TriggerCall \/ TriggerSend \/ TriggerFail

\* commands/pipeline.rs 288-297 and 340-343: the awaited operation has
\* returned; Stop stores Completed in the handle when it returned Ok; the
\* guard is dropped at the end of its block.
UnlockPipeline ==
    /\ Returning
    /\ pipeline_mutex' = "free"
    /\ handle_state' = IF ret.op = "stop" /\ ret.result = "ok"
                       THEN St("Completed") ELSE handle_state
    /\ UNCHANGED vars
    /\ UNCHANGED <<active_mutex, manager_devices, dm>>
    /\ UNCHANGED <<devVars, notLock>>

\* The pipeline's start and its tasks, which take no mutex.
Unguarded ==
    /\ ~Returning
    /\ StartSpawn \/ StartRunning \/ TaskStep

\* device_manager.rs 101-102: start_device creates the device and awaits
\* its start before it touches the map.
StartDeviceCall(profile_id) ==
    /\ dm = "idle"
    /\ profile_id \notin manager_devices
    /\ dm' = "start_device"
    /\ dret' = NoDReturn
    /\ UNCHANGED <<mstate, istate, frame_counter, mpc, is_streaming, stream, streams_built>>
    /\ UNCHANGED <<pipeline_mutex, active_mutex, manager_devices>>
    /\ UNCHANGED <<vars, cmdVars, notLock>>

\* device_manager.rs 103: `device.start().await?`.
StartDeviceAwait ==
    /\ dm = "start_device"
    /\ dret = NoDReturn
    /\ ADStart

\* device_manager.rs 103-107: an error is returned as it is; otherwise the
\* map is locked, the device inserted and the guard dropped.
StartDeviceReturn(profile_id) ==
    /\ dm = "start_device"
    /\ dret.op = "start"
    /\ active_mutex = "free"
    /\ manager_devices' = IF dret.result = "ok"
                           THEN manager_devices \cup {profile_id} ELSE manager_devices
    /\ dm' = "idle"
    /\ UNCHANGED <<pipeline_mutex, active_mutex>>
    /\ UNCHANGED <<vars, devVars, cmdVars, notLock>>

\* device_manager.rs 111-114: stop_device locks the map and removes the
\* device; without an entry it returns at once.
StopDeviceCall(profile_id) ==
    /\ dm = "idle"
    /\ active_mutex = "free"
    /\ IF profile_id \in manager_devices
       THEN /\ active_mutex' = "stop_device"
            /\ manager_devices' = manager_devices \ {profile_id}
            /\ dm' = "stop_device"
       ELSE UNCHANGED <<active_mutex, manager_devices, dm>>
    /\ dret' = NoDReturn
    /\ UNCHANGED <<mstate, istate, frame_counter, mpc, is_streaming, stream, streams_built>>
    /\ UNCHANGED pipeline_mutex
    /\ UNCHANGED <<vars, cmdVars, notLock>>

\* device_manager.rs 115: `device.stop().await?` with `active` alive.
StopDeviceAwait ==
    /\ dm = "stop_device"
    /\ dret = NoDReturn
    /\ ADStop

\* device_manager.rs 115-119: stop_device returns, dropping the guard.
StopDeviceReturn ==
    /\ dm = "stop_device"
    /\ dret.op = "stop"
    /\ active_mutex' = "free"
    /\ dm' = "idle"
    /\ UNCHANGED <<pipeline_mutex, manager_devices>>
    /\ UNCHANGED <<vars, devVars, cmdVars, notLock>>

\* A deployed pipeline with its handle, and a DeviceManager without active
\* devices.
InitLocks ==
    /\ FromJson(SurfaceConfigs) /\ budget = SurfaceFrames /\ NothingRunning
    /\ handle_state = St("Idle")
    /\ NoLocks
    /\ SchedulerIdle /\ KernelIdle /\ DevicesIdle /\ HardwareIdle /\ SourcesNew
    /\ NoJson /\ NoMapping /\ NoPacket /\ NoPool /\ NoBuffers
    /\ NoDeploy

NextLocks ==
    \/ \E command \in {"control_pipeline", "trigger_pipeline"} : LockPipeline(command)
    \/ GuardedStop
    \/ GuardedTrigger
    \/ UnlockPipeline
    \/ Unguarded
    \/ \E profile_id \in ProfileIds : StartDeviceCall(profile_id)
    \/ StartDeviceAwait
    \/ \E profile_id \in ProfileIds : StartDeviceReturn(profile_id)
    \/ \E profile_id \in ProfileIds : StopDeviceCall(profile_id)
    \/ StopDeviceAwait
    \/ StopDeviceReturn

SpecLocks == InitLocks /\ [][NextLocks]_allVars


\* ========================================================================
\* deploy_graph (src/src-tauri/src/commands/pipeline.rs 36-228)
\*
\* The command translates the graph, builds the pipeline, starts one device
\* for every AudioSourceNode that names a device profile, and stores the
\* handle.  After the first device that fails to start it stops the devices
\* it started: one blocking task per device, spawned in the order of
\* started_devices (174-189) and awaited afterwards (192-194).  Each task
\* takes the device manager's mutex (180), so the stops happen one at a time
\* in the order in which the tasks get the mutex.
\* ========================================================================

DeviceProfiles == {"mic", "line", "aux"}

\* The requests of a graph: distinct profiles, at most MaxRequests of them.
RequestLists ==
    {s \in UNION {[1..k -> DeviceProfiles] : k \in 0..MaxRequests} :
        \A i, j \in 1..Len(s) : i # j => s[i] # s[j]}

Reverse(s) == [i \in 1..Len(s) |-> s[Len(s) + 1 - i]]

DeployUnchanged == UNCHANGED <<pipeline_mutex, active_mutex, dm, notDeploy>>

\* pipeline.rs 43-53: the "Deploying" event.
DeployCall ==
    /\ dpc = "none"
    /\ events' = Append(events, "Deploying")
    /\ dpc' = "translate"
    /\ UNCHANGED <<requests, started_devices, didx, cleanup_handles, stopped_devices,
                   pipelines, deploy_ret, manager_devices>>
    /\ DeployUnchanged

\* pipeline.rs 61-75 (translate_graph) and 80-95 (from_json): an error emits
\* the "Error" event and is returned; nothing has been started.
DeployParse(step, next) ==
    /\ dpc = step
    /\ \E result \in {"ok", "err"} :
        IF result = "err"
        THEN /\ events' = Append(events, "Error")
             /\ deploy_ret' = "err"
             /\ dpc' = "returned"
             /\ UNCHANGED didx
        ELSE /\ dpc' = next
             /\ didx' = 1
             /\ UNCHANGED <<events, deploy_ret>>
    /\ UNCHANGED <<requests, started_devices, cleanup_handles, stopped_devices, pipelines,
                   manager_devices>>
    /\ DeployUnchanged

\* pipeline.rs 106-161: the next AudioSourceNode with a device profile.
\* start_device succeeds (136-153: the profile is pushed to started_devices
\* and the device is active in the manager) or fails (154-157: the loop is
\* left, and 167-189 spawn one cleanup task per started device).
DeployStartDevice ==
    /\ dpc = "inject"
    /\ didx <= Len(requests)
    /\ \E result \in {"ok", "err"} :
        IF result = "ok"
        THEN /\ started_devices' = Append(started_devices, requests[didx])
             /\ manager_devices' = manager_devices \cup {requests[didx]}
             /\ didx' = didx + 1
             /\ UNCHANGED <<dpc, cleanup_handles>>
        ELSE /\ dpc' = "cleanup"
             /\ cleanup_handles' = {started_devices[i] : i \in 1..Len(started_devices)}
             /\ UNCHANGED <<started_devices, manager_devices, didx>>
    /\ UNCHANGED <<requests, stopped_devices, pipelines, events, deploy_ret>>
    /\ DeployUnchanged

\* pipeline.rs 179-187: one cleanup task gets the manager's mutex and stops
\* its device (device_manager.rs 111-119 removes it from the active devices);
\* the result of stop_device is dropped.
CleanupStop(device_id) ==
    /\ dpc = "cleanup"
    /\ device_id \in cleanup_handles
    /\ manager_devices' = manager_devices \ {device_id}
    /\ stopped_devices' = Append(stopped_devices, device_id)
    /\ cleanup_handles' = cleanup_handles \ {device_id}
    /\ UNCHANGED <<requests, started_devices, dpc, didx, pipelines, events, deploy_ret>>
    /\ DeployUnchanged

\* pipeline.rs 192-202: every cleanup task has ended; the "Error" event and
\* the error.
CleanupReturn ==
    /\ dpc = "cleanup"
    /\ cleanup_handles = {}
    /\ events' = Append(events, "Error")
    /\ deploy_ret' = "err"
    /\ dpc' = "returned"
    /\ UNCHANGED <<requests, started_devices, didx, cleanup_handles, stopped_devices,
                   pipelines, manager_devices>>
    /\ DeployUnchanged

\* pipeline.rs 206-227: no injection failed; the handle is stored, the "Idle"
\* event emitted and the id returned.
DeployStore ==
    /\ dpc = "inject"
    /\ didx > Len(requests)
    /\ pipelines' = pipelines + 1
    /\ events' = Append(events, "Idle")
    /\ deploy_ret' = "ok"
    /\ dpc' = "returned"
    /\ UNCHANGED <<requests, started_devices, didx, cleanup_handles, stopped_devices,
                   manager_devices>>
    /\ DeployUnchanged

\* A graph whose AudioSourceNodes ask for some devices; none is active.
InitDeploy ==
    /\ requests \in RequestLists
    /\ started_devices = << >>
    /\ dpc = "none"
    /\ didx = 0
    /\ cleanup_handles = {}
    /\ stopped_devices = << >>
    /\ pipelines = 0
    /\ events = << >>
    /\ deploy_ret = "-"
    /\ PipelineUnused
    /\ SchedulerIdle /\ KernelIdle /\ DevicesIdle /\ HardwareIdle /\ SourcesNew
    /\ NoHandle /\ NoJson /\ NoMapping /\ NoPacket /\ NoPool /\ NoBuffers /\ NoLocks

NextDeploy ==
    \/ DeployCall
    \/ DeployParse("translate", "from_json")
    \/ DeployParse("from_json", "inject")
    \/ DeployStartDevice
    \/ \E device_id \in DeviceProfiles : CleanupStop(device_id)
    \/ CleanupReturn
    \/ DeployStore

SpecDeploy == InitDeploy /\ [][NextDeploy]_allVars


\* ========================================================================
\* Claims
\* ========================================================================

\* The transition table of the specification, as pairs of variant names; the
\* Error -> Idle entry holds only for a recoverable Error.
TableAllows(from, to) ==
    \/ from.name = "Idle" /\ to.name \in {"Initializing"}
    \/ from.name = "Initializing" /\ to.name \in {"Running", "Error"}
    \/ from.name = "Running" /\ to.name \in {"Paused", "Completed", "Error"}
    \/ from.name = "Paused" /\ to.name \in {"Running", "Completed", "Error"}
    \/ from.name = "Completed" /\ to.name \in {"Idle"}
    \/ from.name = "Error" /\ from.recoverable = TRUE /\ to.name \in {"Idle"}

\* C1: transition_to accepts a request exactly when the table allows it from
\* the current state, and then the state becomes the target; every other
\* request (self-loops included) returns an error and leaves the state unchanged.
C1_TransitionTable ==
    [][ret'.op = "transition_to" =>
          IF TableAllows(state, ret'.target)
          THEN ret'.result = "ok" /\ state' = ret'.target
          ELSE ret'.result = "err" /\ state' = state]_vars

\* C1 witness: Error{recoverable: false} -> Idle was requested and rejected.
C1_Witness ==
    /\ ret.op = "transition_to"
    /\ ret.result = "err"
    /\ ret.target = St("Idle")
    /\ state = ErrorState(FALSE)


\* ------------------------------------------------------------------------
\* Nodes without an outgoing connection, and the number of paths along the
\* connections from the source to a node (the graphs are acyclic).
Sinks == {n \in configured : \A i \in Idx(connections) : connections[i][1] # n}

RECURSIVE PathsTo(_)
PathsTo(n) ==
    IF n = source_node_id THEN 1
    ELSE LET into == {i \in Idx(connections) : connections[i][2] = n}
             RECURSIVE Sum(_)
             Sum(S) == IF S = {} THEN 0
                       ELSE LET i == CHOOSE x \in S : TRUE
                            IN PathsTo(connections[i][1]) + Sum(S \ {i})
         IN Sum(into)

SomeNodeFailed == \E n \in NodeIds : nodepc[n] = "failed"

AllTasksDone ==
    \A n \in configured : nodepc[n] \in {"done", "failed"} /\ fanpc[n] = "done"

\* C2 as stated: once every task has finished without a failure, every
\* terminal sink has processed exactly the n frames that were triggered.
C2_SinkProcessesN ==
    (AllTasksDone /\ ~SomeNodeFailed) =>
        \A s \in Sinks : frames_processed[s] = accepted

\* C2 amended: if no node fails, every terminal sink eventually has processed,
\* for good, one frame per accepted trigger and per path from the source to
\* it (n frames where one path leads to it), frames in flight at stop included.
C2_SinkProcessesPerPath ==
    <>[](~SomeNodeFailed /\ \A s \in Sinks : frames_processed[s] = accepted * PathsTo(s))

\* C2 witness: on the graph with two paths into its sink, everything has
\* drained after stop and the sink has processed twice the accepted frames.
C2_Witness ==
    /\ AllTasksDone /\ ~SomeNodeFailed
    /\ accepted = budget
    /\ \E s \in Sinks : PathsTo(s) = 2 /\ frames_processed[s] = 2 * accepted
    /\ \A s \in Sinks : frames_processed[s] = accepted * PathsTo(s)


\* ------------------------------------------------------------------------
\* The frames node n has taken from its inbox so far that arrived over
\* connection e, in the order taken, and the frames node n has produced.
IsPrefix(a, b) == Len(a) <= Len(b) /\ SubSeq(b, 1, Len(a)) = a
Unrouted(frame) == [frame EXCEPT !.via = 0]
Taken(n) ==
    [i \in Idx(hist[n]) |-> hist[n][i].frame]
        \o (IF nodepc[n] = "process" THEN <<held[n]>> ELSE << >>)
ReceivedOver(e) ==
    LET took == SelectSeq(Taken(connections[e][2]), LAMBDA fr : fr.via = e)
    IN [i \in Idx(took) |-> Unrouted(took[i])]
Produced(n) == emitted[n]

\* C3: on every edge (from, to), the frames `to` has received from `from` are,
\* in order, the first frames `from` produced.
C3_EdgeOrder ==
    \A e \in Idx(connections) : IsPrefix(ReceivedOver(e), Produced(connections[e][1]))

\* C3 witness: some node has received two frames over each of two edges.
C3_Witness ==
    \E e1, e2 \in Idx(connections) :
        /\ e1 # e2
        /\ connections[e1][2] = connections[e2][2]
        /\ Len(ReceivedOver(e1)) = 2
        /\ Len(ReceivedOver(e2)) = 2

\* C4 as stated: with channel_capacity = 2 and a single source node without
\* outgoing edge, a third trigger is never accepted.
C4_ThirdTriggerBlocks ==
    (configured = {"A"} /\ connections = << >> /\ channel_capacity = 2) => accepted <= 2

\* C5: no inbox ever holds more than channel_capacity frames; a trigger
\* returns Ok only by appending its frame to a source inbox that had room
\* (so, if it was full, after a frame was removed), and otherwise returns
\* without touching any inbox: an error once the source's receiver is gone,
\* or the caller's timeout.
C5_Backpressure ==
    /\ [](\A n \in NodeIds : Len(inbox[n]) <= channel_capacity)
    /\ [][(call.op = "trigger" /\ call'.op # "trigger") =>
            \/ /\ ret'.result = "ok"
               /\ Len(inbox[source_node_id]) < channel_capacity
               /\ inbox' = [inbox EXCEPT ![source_node_id] = Append(@, call.frame)]
            \/ /\ ret'.result = "err"
               /\ nodepc[source_node_id] \in {"done", "failed"}
               /\ inbox' = inbox
            \/ /\ ret'.result = "timeout"
               /\ inbox' = inbox]_vars

\* C5 witness: a trigger is suspended on a full source inbox.
C5_Witness ==
    /\ call.op = "trigger"
    /\ nodepc[source_node_id] \in {"recv", "process", "send"}
    /\ Len(inbox[source_node_id]) = channel_capacity


C7_StopLeavesNoTask ==
    ret.op = "stop" =>
        \A n \in configured :
            nodepc[n] \in {None, "done", "failed"}

\* C8 as stated: once a node's process has failed under Propagate, the
\* pipeline does not end in Completed: when stop returns the state is Error.
C8_FailureMovesToError ==
    (ret.op = "stop" /\ \E n \in NodeIds : policy[n] = "Propagate" /\ nodepc[n] = "failed")
        => state.name = "Error"


\* ------------------------------------------------------------------------
\* The outcomes of the process calls of node n so far.
Outcomes(n, ok) == SelectSeq(hist[n], LAMBDA h : h.ok = ok)
LastOf(q) == q[Len(q)]

\* C9: each process call that succeeds adds exactly 1 to frames_processed and
\* leaves errors_count; each that fails, under any policy, adds exactly 1 to
\* errors_count and leaves frames_processed; nothing else changes either
\* counter, so after k processed inputs the two add up to k.
C9_Metrics ==
    /\ [][\A n \in NodeIds :
            IF hist'[n] # hist[n]
            THEN /\ Len(hist'[n]) = Len(hist[n]) + 1
                 /\ IF LastOf(hist'[n]).ok
                    THEN /\ frames_processed'[n] = frames_processed[n] + 1
                         /\ errors_count'[n] = errors_count[n]
                    ELSE /\ errors_count'[n] = errors_count[n] + 1
                         /\ frames_processed'[n] = frames_processed[n]
            ELSE /\ frames_processed'[n] = frames_processed[n]
                 /\ errors_count'[n] = errors_count[n]]_vars
    /\ [](\A n \in NodeIds : frames_processed[n] + errors_count[n] = Len(hist[n]))

\* C9 witness: under UseDefault the node has processed three inputs, one
\* with success and two with failure.
C9_Witness ==
    /\ policy[Node] = "UseDefault"
    /\ Len(hist[Node]) = 3
    /\ frames_processed[Node] = 1
    /\ errors_count[Node] = 2

\* What the receiver of the node's output has been or will be handed: the
\* frames it took, those queued, and the one the node is sending.
Downstream(n) ==
    sunk \o fan[n] \o (IF nodepc[n] = "send" THEN <<held[n]>> ELSE << >>)

\* C10: under SkipFrame a failing process never ends the node's loop, and as
\* long as the output's receiver is there the frames delivered downstream are,
\* in input order, exactly the outputs of the inputs processed with success;
\* the counters count the successes and the failures.
C10_SkipFrame ==
    policy[Node] = "SkipFrame" =>
        /\ nodepc[Node] # "failed"
        /\ (hist[Node] # << >> /\ ~LastOf(hist[Node]).ok /\ nodepc[Node] # "process")
              => nodepc[Node] \in {"recv", "done"}
        /\ frames_processed[Node] = Len(Outcomes(Node, TRUE))
        /\ errors_count[Node] = Len(Outcomes(Node, FALSE))
        /\ fanpc[Node] = "ext" =>
              Downstream(Node) =
                 [i \in Idx(Outcomes(Node, TRUE)) |-> Process(Outcomes(Node, TRUE)[i].frame)]

\* C10 witness: of three inputs the second failed; downstream received the
\* outputs of the first and the third.
C10_Witness ==
    /\ policy[Node] = "SkipFrame"
    /\ Len(hist[Node]) = 3
    /\ hist[Node][1].ok /\ ~hist[Node][2].ok /\ hist[Node][3].ok
    /\ frames_processed[Node] = 2 /\ errors_count[Node] = 1
    /\ sunk = <<[seq |-> 0, hops |-> 1, via |-> 0], [seq |-> 2, hops |-> 1, via |-> 0]>>

\* ------------------------------------------------------------------------
\* The fan-out graph A -> {B, C} and the sequence ids of a list of frames.
FanOutGraph == connections = << <<"A", "B">>, <<"A", "C">> >>
SeqIds(q) == [i \in Idx(q) |-> q[i].seq]
Distinct(q) == \A i, j \in Idx(q) : q[i] = q[j] => i = j

\* C11: in the fan-out A -> {B, C} whose nodes accept every frame, B and C
\* each receive only frames A emitted, each at most once and in A's order,
\* and in the end each has received every frame A emitted exactly once, with
\* the same sequence ids on both branches, and has processed one frame per
\* accepted trigger (1 after one trigger).
C11_FanOutDelivery ==
    /\ [](FanOutGraph =>
            /\ Distinct(SeqIds(Produced("A")))
            /\ \A e \in Idx(connections) : IsPrefix(ReceivedOver(e), Produced("A")))
    /\ <>[](FanOutGraph =>
            /\ Len(Produced("A")) = accepted
            /\ \A e \in Idx(connections) : ReceivedOver(e) = Produced("A")
            /\ SeqIds(Taken("B")) = SeqIds(Taken("C"))
            /\ frames_processed["B"] = accepted
            /\ frames_processed["C"] = accepted)

\* C11 witness: after one trigger on the fan-out graph everything has drained
\* and B and C have each processed the one frame, with the same sequence id.
C11_Witness ==
    /\ FanOutGraph /\ AllTasksDone
    /\ accepted = 1
    /\ frames_processed["B"] = 1 /\ frames_processed["C"] = 1
    /\ SeqIds(Taken("B")) = SeqIds(Produced("A"))
    /\ SeqIds(Taken("C")) = SeqIds(Produced("A"))

\* ------------------------------------------------------------------------
\* C12 as stated: every schedule_task call returned true exactly when fewer
\* than max_concurrent admitted tasks were unfinished at the call.
C12_AdmitsUnderCeiling ==
    \A i \in Idx(scheduled) :
        scheduled[i].result = (scheduled[i].unfinished < max_concurrent)

\* The tasks whose future is executing.
Executing == {t \in 0..(next_task_id - 1) : TaskState(t) = "running"}

\* C13 as stated: never more than max_concurrent tasks execute, and a task
\* in the pending queue has not begun executing.
C13_AtMostMaxExecuting ==
    /\ Len(active_tasks) <= max_concurrent \/ spc # "idle"
    /\ Cardinality(Executing) <= max_concurrent
    /\ \A q \in pending_queue : TaskState(q.task_id) = "spawned"

\* C14: of two tasks that left the pending queue, the one that left first
\* has the higher priority, or the same priority and was submitted first.
C14_PopOrder ==
    \A i, j \in Idx(left) :
        i < j => \/ value(left[i].priority) > value(left[j].priority)
                 \/ /\ left[i].priority = left[j].priority
                    /\ left[i].task_id < left[j].task_id

\* C14 witness: two tasks left the queue, the later submitted one first.
C14_Witness ==
    /\ Len(left) = 2
    /\ left[1].task_id > left[2].task_id
    /\ value(left[1].priority) > value(left[2].priority)

\* C15: inside wait_all, once the pop loop is over nothing is pending and
\* every task handed to schedule_task is in the active set exactly once;
\* with tasks that do not panic, wait_all, once called, returns; when it has
\* returned every task has ended and completed holds each task's result once.
C15_WaitAll ==
    /\ [](spc \in {"waiting", "returned"} =>
            /\ pending_queue = {}
            /\ Len(active_tasks) = next_task_id
            /\ \A t \in 0..(next_task_id - 1) : \E i \in Idx(active_tasks) : active_tasks[i] = t)
    /\ [](spc = "returned" =>
            /\ \A t \in 0..(next_task_id - 1) : TaskState(t) = "finished"
            /\ Len(completed) = next_task_id
            /\ \A t \in 0..(next_task_id - 1) : \E i \in Idx(completed) : completed[i] = t)
    /\ (spc = "moving" ~> spc = "returned")

\* C15 witness: wait_all returned the results of three tasks, one of which
\* had been queued.
C15_Witness ==
    /\ spc = "returned"
    /\ next_task_id = MaxTasks
    /\ Len(left) >= 1
    /\ Len(completed) = next_task_id

\* ------------------------------------------------------------------------
\* What a start call did with the entries it reached.
Did(what) == {i \in Idx(attempt.did) : attempt.did[i] = what}

\* C16 as stated: when start returns on a kernel without pipeline (and was
\* not refused as already running), it has reached every registered entry
\* whatever failed before it; if some device came up it succeeded with status
\* Running; and it failed only with status Error, entries being registered
\* and none having come up.
C16_DeviceFailureIsolated ==
    (pipeline = NoState /\ kret.op = "start" /\ kret.why # "already_running") =>
        /\ Len(attempt.did) = Len(registered_devices)
        /\ Did("started") # {} => (kret.result = "ok" /\ status = "Running")
        /\ kret.result = "err" =>
              (status = "Error" /\ registered_devices # << >> /\ Did("started") = {})

\* The kernel's fields other than the status.
kernelOwned == <<active_devices, device_channels, pipeline, shutdown_tx, reader_handles,
                 readers, streaming>>

\* C17: whenever shutdown returns, it returns success, the status is Stopped,
\* no device is active or streaming and every reader task spawned has ended;
\* a shutdown called while Stopped changes nothing.
C17_ShutdownStops ==
    [][kret'.op = "shutdown" =>
          /\ kret'.result = "ok"
          /\ status' = "Stopped"
          /\ DOMAIN active_devices' = {}
          /\ streaming' = {}
          /\ reader_handles' = << >>
          /\ \A r \in Idx(readers') : readers'[r].st = "done"
          /\ status = "Stopped" => UNCHANGED <<status, kernelOwned>>]_allVars

\* C17 witness: shutdown has returned on a Running kernel that had started
\* two devices.
C17_Witness ==
    /\ kret.op = "shutdown"
    /\ kret.from = "Running"
    /\ Cardinality(Did("started")) = 2
    /\ status = "Stopped"

\* C18 as stated: a start called on a Stopped kernel in which no enabled
\* device failed returns success with status Running; a start called while
\* Running returns an error and changes nothing.
C18_StartReachesRunning ==
    [][/\ (kret'.op = "start" /\ kret'.from = "Stopped"
            /\ \A i \in Idx(attempt'.did) : attempt'.did[i] \in {"disabled", "started"}) =>
               (kret'.result = "ok" /\ status' = "Running")
       /\ (kret'.op = "start" /\ kret'.from = "Running") =>
               (kret'.result = "err" /\ UNCHANGED <<status, kernelOwned>>)]_allVars

\* ------------------------------------------------------------------------
\* The state changes the device lifecycle allows.
DeviceEdge(from, to) ==
    \/ from = "Unopened" /\ to = "Opened"
    \/ from = "Opened" /\ to = "Running"
    \/ from = "Stopped" /\ to = "Running"
    \/ from = "Running" /\ to = "Stopped"
    \/ from = "Stopped" /\ to = "Closed"
    \/ from # "Error" /\ to = "Error"

\* C19 as stated: every change of a ManagedSource's state is one of
\* Unopened -> Opened, Opened -> Running, Stopped -> Running, Running ->
\* Stopped, Stopped -> Closed, or a change into Error; Error is never left.
C19_DeviceStateMachine ==
    [][mstate' # mstate => DeviceEdge(mstate, mstate')]_allVars

\* C20 as stated: a start of an AudioDevice that is streaming returns
\* AlreadyStreaming and leaves the stream and the streaming flag as they were.
C20_StartWhileStreaming ==
    [][(is_streaming /\ dret'.dev = "audio" /\ dret'.op = "start") =>
          (dret'.result = "AlreadyStreaming" /\ UNCHANGED <<stream, is_streaming>>)]_allVars

\* C21: after any sequence of register_device, update_device and
\* remove_device calls no two registered entries have the same user_name.
C21_UniqueUserNames ==
    \A i, j \in 1..Len(hw_state) :
        i # j => hw_state[i].user_name # hw_state[j].user_name

\* C22: the frames one source returns carry strictly increasing
\* sequence_ids, whether or not a device packet is available at each call.
C22_StrictlyIncreasing ==
    \A n \in SourceNodes :
        \A i \in 1..(Len(sequence_ids[n]) - 1) :
            sequence_ids[n][i] < sequence_ids[n][i + 1]

\* C23: every change of a pipeline's state, in the pipeline and in its
\* handle, is a transition can_transition_to allows from the state held
\* immediately before.
C23_ChangesAreAllowed ==
    [][/\ state' # state => can_transition_to(state, state')
       /\ handle_state' # handle_state => can_transition_to(handle_state, handle_state')]_allVars

\* A graph configuration in which every node has an id and a known type and
\* every connection has a from and a to.
ValidGraph(config) ==
    /\ \A i \in Idx(config.nodes) :
          config.nodes[i].id # Null /\ config.nodes[i].type \in KnownTypes
    /\ \A i \in Idx(config.connections) :
          config.connections[i].from # Null /\ config.connections[i].to # Null

C25_ApplyReturns ==
    applied # NotApplied =>
        /\ applied.result # "panic"
        /\ applied.result = "ok" => Len(applied.samples) = mapping.virtual_channels

\* The samples a packet holds, in order.
SamplesOf(p) ==
    IF p.format = "I24"
    THEN [i \in 1..(Len(p.data) \div 3) |->
            Sample24(p.data[3 * i - 2], p.data[3 * i - 1], p.data[3 * i])]
    ELSE p.data

\* C26: converting a packet of an integer format to a frame and the frame
\* back to that format yields a packet with the same num_channels, the same
\* length and every sample at its index (frame f, channel c at
\* f * num_channels + c) within one LSB of the original.
C26_RoundTrip ==
    /\ converted # NotConverted => converted.result = "ok"
    /\ reconstructed # NotConverted =>
          /\ reconstructed.result = "ok"
          /\ reconstructed.num_channels = packet.num_channels
          /\ Len(reconstructed.data) = Len(packet.data)
          /\ \A i \in Idx(SamplesOf(packet)) :
                /\ SamplesOf(reconstructed)[i] - SamplesOf(packet)[i] <= 1
                /\ SamplesOf(packet)[i] - SamplesOf(reconstructed)[i] <= 1

\* C26 witness: a two-channel I24 packet of two frames with four different
\* samples went through both conversions.
C26_Witness ==
    /\ reconstructed # NotConverted
    /\ reconstructed.result = "ok"
    /\ packet.format = "I24"
    /\ packet.num_channels = 2
    /\ Len(packet.data) = 12
    /\ Cardinality({SamplesOf(packet)[i] : i \in 1..4}) = 4

\* C27: at no time do more than max_concurrent instances hold a permit, and
\* every task execute returned eventually completes and releases its permit.
C27_PoolBoundedAndLive ==
    /\ [](Cardinality({t \in PoolTasks : Holding(t)}) <= pool_max_concurrent)
    /\ \A t \in PoolTasks : (instance[t].pc # "none") ~> (instance[t].pc \in Ended)

\* Every inbox the fan-out task of node n sends to has lost its receiver.
AllOutputsClosed(n) ==
    /\ outputs[n] # << >>
    /\ \A k \in Idx(outputs[n]) : RxClosed(connections[outputs[n][k]][2])

\* C28: the task of a node whose downstream inboxes have all been closed
\* finishes: a fan-out pass that ends with every output closed is the last
\* one, the task does not go back to waiting for the node's next frame.
C28_StopsWhenOutputsClosed ==
    [][\A n \in NodeIds :
          (fanpc[n] = "send" /\ fanidx[n] = Len(outputs[n]) /\ AllOutputsClosed(n))
              => fanpc'[n] # "recv"]_vars

\* The inbox of node `to` would take a frame now.
HasRoom(to) == ~RxClosed(to) /\ Len(inbox[to]) < channel_capacity

\* The node that output k of the fan-out task of node n sends to.
Branch(n, k) == connections[outputs[n][k]][2]

\* C29: the outputs of a fan-out are served in declaration order, and a
\* branch whose inbox is full does not keep a frame from another branch:
\* the fan-out task is never suspended on one branch while a branch it has
\* still to offer the frame to has room for it.
C29_BranchesIndependent ==
    \A n \in NodeIds :
        fanpc[n] = "send" =>
            /\ outputs[n] = OutputsOf(n)
            /\ (~RxClosed(Branch(n, fanidx[n])) /\ ~HasRoom(Branch(n, fanidx[n])))
                  => \A k \in (fanidx[n] + 1)..Len(outputs[n]) : ~HasRoom(Branch(n, k))

\* The number of places that hold the buffer of id i.
Holders(i) ==
    Cardinality({k \in Idx(empty) : empty[k].id = i})
    + Cardinality({k \in Idx(filled) : filled[k].id = i})
    + Cardinality({s \in DOMAIN callback : callback[s].id = i})
    + (IF reader.packet.id = i THEN 1 ELSE 0)

\* C30: the two buffers pre-allocated at construction are, each exactly
\* once, in the empty queue, in the filled queue, or held by a callback or
\* the reader; the reader holds none between two rounds of its loop, no
\* queue refuses a buffer and none holds more than its capacity.
C30_TwoBuffers ==
    /\ \A i \in PreAllocated : Holders(i) = 1
    /\ Len(empty) + Len(filled) + Cardinality({s \in DOMAIN callback : callback[s] # NoBuffer})
          + (IF reader.packet # NoBuffer THEN 1 ELSE 0) = 2
    /\ reader.pc \in {"check", "take", "stopped"} => reader.packet = NoBuffer
    /\ lost = {}
    /\ Len(empty) <= QueueCapacity /\ Len(filled) <= QueueCapacity

\* The reader has returned a buffer and stopped, and the callbacks have
\* since filled both buffers.
C30_Witness ==
    /\ reader.pc = "stopped"
    /\ reader.sequence_id >= 1
    /\ Len(filled) = QueueCapacity

\* C31: no mutex is held across an await of externally visible work: not
\* the pipeline's while stop awaits a node task that is still running or
\* while trigger's send waits for room, not the device map's while a
\* device's stop is awaited.
C31_NoLockAcrossAwait ==
    /\ ~(/\ pipeline_mutex # "free"
          /\ call.op = "stop"
          /\ call.wait # None
          /\ HandleResult(call.wait) = "running")
    /\ ~(/\ pipeline_mutex # "free"
          /\ call.op = "trigger"
          /\ ~RxClosed(source_node_id)
          /\ Len(inbox[source_node_id]) >= channel_capacity)
    /\ ~(active_mutex # "free" /\ dm = "stop_device" /\ dret = NoDReturn)

\* C32: when deploy_graph returns an error after starting devices, every
\* device it started has been stopped, in reverse order of starting, and no
\* pipeline handle is stored.
C32_CleanupInReverse ==
    (deploy_ret = "err" /\ started_devices # << >>)
        => /\ stopped_devices = Reverse(started_devices)
           /\ \A i \in 1..Len(started_devices) : started_devices[i] \notin manager_devices
           /\ pipelines = 0

\* C33: under UseDefault(d) a failing process never ends the node's loop, and
\* as long as the output's receiver is there the output stream holds, at the
\* position of every input consumed, the processed frame when process
\* succeeded and d when it failed: one frame emitted per input consumed.  The
\* loop ends only when the input is closed and drained.
C33_UseDefault ==
    policy[Node] = "UseDefault" =>
        /\ nodepc[Node] # "failed"
        /\ fanpc[Node] = "ext" =>
              /\ nodepc[Node] # "process" =>
                    Downstream(Node) =
                        [i \in Idx(hist[Node]) |->
                            IF hist[Node][i].ok THEN Process(hist[Node][i].frame)
                                                ELSE DefaultFrame]
              /\ nodepc[Node] = "done" => (inbox[Node] = << >> /\ ~InboxSenders(Node))

\* C33 witness: of three inputs the second failed; downstream received the
\* default frame between the outputs of the first and the third.
C33_Witness ==
    /\ policy[Node] = "UseDefault"
    /\ Len(hist[Node]) = 3
    /\ hist[Node][1].ok /\ ~hist[Node][2].ok /\ hist[Node][3].ok
    /\ sunk = <<[seq |-> 0, hops |-> 1, via |-> 0], DefaultFrame,
                [seq |-> 2, hops |-> 1, via |-> 0]>>
    /\ nodepc[Node] = "recv"

\* C34: whenever trigger returns success, the frame has been enqueued into
\* the source node's inbox; a trigger on a pipeline that has not been
\* started, has been stopped or has no source does not report success.
C34_TriggerEnqueues ==
    [][(ret' # ret /\ ret'.op = "trigger" /\ ret'.result = "ok")
          => /\ source_node_id # None
             /\ call.op = "trigger"
             /\ inbox'[source_node_id] = Append(inbox[source_node_id], call.frame)]_vars

\* C35: stop eventually returns, also on a graph that contains a cycle.
C35_StopReturns == (call.op = "stop") ~> (call.op # "stop")

\* C36: when kernel start returns an error (other than the refusal while
\* Running), the status is not Initializing and no device started during the
\* failed attempt is still streaming with a live reader task.
C36_NoPartialStart ==
    [][(kret' # kret /\ kret'.op = "start" /\ kret'.result = "err"
            /\ kret'.why # "already_running") =>
          /\ status' # "Initializing"
          /\ \A r \in streaming' :
                ~(readers'[r].chan = shutdown_tx' /\ readers'[r].st = "running")]_allVars

\* C37: for every configuration from_json accepts, start returns: with
\* success or with an error value.  It never aborts on a connection.
C37_StartNeverAborts ==
    /\ ret.op = "start" => ret.result \in {"ok", "err"}
    /\ call.op # "panicked"

\* C38: start called on a pipeline whose state is not Idle returns an error,
\* leaves the state unchanged, creates no channels and spawns no tasks.
C38_StartRefusedUnlessIdle ==
    [][(NoCaller /\ state.name # "Idle" /\ ret' # ret /\ ret'.op = "start") =>
          /\ ret'.result = "err"
          /\ call' = NoCall
          /\ UNCHANGED <<state, channels, handles, nodes, spawned>>
          /\ UNCHANGED <<nodeVars, fanVars>>]_vars

\* C38 witness: a second start on the Running pipeline has returned an error.
C38_Witness ==
    /\ state.name = "Running"
    /\ ret = Returned("start", NoState, "err")
    /\ \E n \in NodeIds : spawned[n] = 1

\* C39: every start that an Idle pipeline accepts, the one after stop and
\* transition_to(Idle) included, spawns one task per configured node, each
\* ready to receive, and saves the source's sender, so that a frame triggered
\* afterwards reaches the source node.
C39_RestartRunsAgain ==
    [][(state.name = "Idle" /\ state'.name = "Initializing" /\ ret'.op # "transition_to") =>
          /\ call'.op = "start"
          /\ \A n \in configured : spawned'[n] = spawned[n] + 1 /\ nodepc'[n] = "recv"
          /\ source_node_id # None => source_node_id \in channels']_vars

\* C40: whenever a command stores a state in the pipeline's handle, which is
\* what get_all_pipeline_states reports, it is the variant of the pipeline's
\* own state.
C40_ReportedIsOwnState ==
    [][handle_state' # handle_state => handle_state'.name = state'.name]_allVars

====
